---- MODULE Spec2Model ----
(***************************************************************************)
(* Projection of the perpetual-futures order book: the positions table,    *)
(* the order_buckets and stop_buckets price indexes and the exposure_agg   *)
(* aggregates, as written by the four event handlers of src/shared/db.js   *)
(* through PostgREST and by the reconcilers.  The chain is modelled as the *)
(* source of the events: a trade is opened as ORDER or OPEN, executed,     *)
(* has its stops updated and is removed; every event the chain has emitted *)
(* may be delivered to its handler at any later time, any number of times. *)
(*                                                                         *)
(* A NULL column is the value NULL, except entry_x6 and target_x6, whose   *)
(* NULL is 0: every reader of the code coalesces them to 0.                *)
(***************************************************************************)
EXTENDS Integers, Sequences, FiniteSets, TLC

VARIABLES
    assets,         \* asset_id -> [tick_size_usd6, lot_num, lot_den]
    chain,          \* id -> the on-chain trade (NoTrade before it is opened)
    positions,      \* id -> row of table positions (NoRow when absent)
    order_buckets,  \* rows of table order_buckets
    stop_buckets,   \* rows of table stop_buckets
    exposure_agg,   \* <<asset_id, side>> -> row of table exposure_agg
    task,           \* store calls of the handler in flight (step-wise runs)
    last,           \* the last operation applied to the projection
    consumer,       \* the consumer process under watch: its kind, clock, socket
    job             \* the batch job under watch: its inputs, workers and permits

vars == <<assets, chain, positions, order_buckets, stop_buckets, exposure_agg, task, last,
          consumer, job>>

(***************************************************************************)
(* Bounds of the model.  Trade 1 is an older position, opened as OPEN and  *)
(* indexed before the run starts, and quiet on the chain; trade 2 goes     *)
(* through its whole life during the run.                                  *)
(***************************************************************************)
MaxLots == 2

Ids == {1, 2}
Old == CHOOSE id \in Ids : \A other \in Ids : id <= other
Live == Ids \ {Old}
AssetIds == {0}
LotsSet == 1..MaxLots
Leverages == {2}
OpenPrices == {25}
ExecPrices == {25, 27}
SlPrices == {0, 15}
TpPrices == {0, 35}
LiqPrices == {0, 5}
OpenStops == {<<0, 0>>, <<15, 35>>}
CloseReasons == {2}

NULL == -1
NoRow == [state |-> NULL]
NoTrade == [state |-> NULL]

ORDER == 0
OPEN == 1
CLOSED == 2
CANCELLED == 3

(***************************************************************************)
(* Helpers of src/shared/db.js.                                            *)
(***************************************************************************)
Abs(x) == IF x < 0 THEN -x ELSE x

\* BigInt division truncates toward zero
divFloor(a, b) ==
    IF (a < 0) = (b < 0) THEN Abs(a) \div Abs(b) ELSE -(Abs(a) \div Abs(b))

mulDivFloor(a, b, c) == divFloor(a * b, c)

\* the computation without the lot size of the asset
computeNotionalAndMargin_NoLotSize(entry_x6, lots, leverage_x, lot_num, lot_den) ==
    LET notional == entry_x6 * lots
    IN  [notional_usd6 |-> notional, margin_usd6 |-> divFloor(notional, leverage_x)]

computeNotionalAndMargin(entry_x6, lots, leverage_x, lot_num, lot_den) ==
    LET notional == mulDivFloor(entry_x6, lots * lot_num, lot_den)
    IN  [notional_usd6 |-> notional, margin_usd6 |-> divFloor(notional, leverage_x)]

(***************************************************************************)
(* The store: PostgREST calls of src/shared/rest.js on the four tables.    *)
(* A database is the record of the four tables.                            *)
(***************************************************************************)
DB == [positions |-> positions, order_buckets |-> order_buckets,
       stop_buckets |-> stop_buckets, exposure_agg |-> exposure_agg]

ZeroAgg == [sum_lots |-> 0, sum_entry_x6_lots |-> 0, sum_leverage_lots |-> 0,
            sum_liq_x6_lots |-> 0, sum_liq_lots |-> 0, positions_count |-> 0]

\* exposure_apply: add (sign = 1) or remove (sign = -1) one row's contribution
exposure_apply(agg, row, sign) ==
    IF row.lots = 0 THEN agg
    ELSE LET k == <<row.asset_id, row.long_side>>
             a == agg[k]
         IN  [agg EXCEPT ![k] =
                [sum_lots          |-> a.sum_lots + sign * row.lots,
                 sum_entry_x6_lots |-> a.sum_entry_x6_lots + sign * (row.entry_x6 * row.lots),
                 sum_leverage_lots |-> a.sum_leverage_lots + sign * (row.leverage_x * row.lots),
                 sum_liq_x6_lots   |-> a.sum_liq_x6_lots
                                        + (IF row.liq_x6 > 0 THEN sign * (row.liq_x6 * row.lots) ELSE 0),
                 sum_liq_lots      |-> a.sum_liq_lots
                                        + (IF row.liq_x6 > 0 THEN sign * row.lots ELSE 0),
                 positions_count   |-> a.positions_count + sign]]

\* the trigger without the removal of the old row's contribution
positions_exposure_trg_NoSubtract(agg, old, new) ==
    IF new.state = OPEN THEN exposure_apply(agg, new, 1) ELSE agg

\* trigger trg_positions_exposure, after insert or update of a positions row
positions_exposure_trg(agg, old, new) ==
    LET a1 == IF old.state = OPEN THEN exposure_apply(agg, old, -1) ELSE agg
    IN  IF new.state = OPEN THEN exposure_apply(a1, new, 1) ELSE a1

\* POST positions?on_conflict=id with Prefer: resolution=ignore-duplicates
\* (INSERT ... ON CONFLICT DO NOTHING: an existing row is left as it is)
postPositions(db, id, row) ==
    IF db.positions[id] # NoRow THEN db
    ELSE [db EXCEPT !.positions[id] = row,
                    !.exposure_agg = positions_exposure_trg(db.exposure_agg, NoRow, row)]

\* PATCH positions?id=eq.<id>: updates the columns of body, no row no change
patchPositions(db, id, body) ==
    IF db.positions[id] = NoRow THEN db
    ELSE LET old == db.positions[id]
             new == [f \in DOMAIN old |-> IF f \in DOMAIN body THEN body[f] ELSE old[f]]
         IN  [db EXCEPT !.positions[id] = new,
                        !.exposure_agg = positions_exposure_trg(db.exposure_agg, old, new)]

\* POST order_buckets?on_conflict=asset_id,bucket_id,position_id, ignore-duplicates
postOrderBuckets(db, row) ==
    IF \E r \in db.order_buckets :
          /\ r.asset_id = row.asset_id
          /\ r.bucket_id = row.bucket_id
          /\ r.position_id = row.position_id
    THEN db
    ELSE [db EXCEPT !.order_buckets = @ \cup {row}]

StopKeyTaken(rows, row) ==
    \E r \in rows :
        /\ r.asset_id = row.asset_id
        /\ r.bucket_id = row.bucket_id
        /\ r.position_id = row.position_id
        /\ r.stop_type = row.stop_type

\* POST stop_buckets?on_conflict=asset_id,bucket_id,position_id,stop_type, ignore-duplicates
postStopBuckets(db, rows) ==
    [db EXCEPT !.stop_buckets = @ \cup {r \in rows : ~StopKeyTaken(@, r)}]

\* DELETE order_buckets?position_id=eq.<id>
delOrderBuckets(db, id) ==
    [db EXCEPT !.order_buckets = {r \in @ : r.position_id # id}]

\* DELETE stop_buckets?position_id=eq.<id>[&stop_type=in.(types)]
delStopBuckets(db, id, types) ==
    [db EXCEPT !.stop_buckets = {r \in @ : ~(r.position_id = id /\ r.stop_type \in types)}]

\* one store call applied to the database
ApplyCall(db, c) ==
    CASE c.op = "postPositions"    -> postPositions(db, c.id, c.arg)
      [] c.op = "patchPositions"   -> patchPositions(db, c.id, c.arg)
      [] c.op = "postOrderBuckets" -> postOrderBuckets(db, c.arg)
      [] c.op = "postStopBuckets"  -> postStopBuckets(db, c.arg)
      [] c.op = "delOrderBuckets"  -> delOrderBuckets(db, c.id)
      [] c.op = "delStopBuckets"   -> delStopBuckets(db, c.id, c.arg)

RECURSIVE ApplyCalls(_, _)
ApplyCalls(db, calls) ==
    IF calls = << >> THEN db
    ELSE ApplyCalls(ApplyCall(db, Head(calls)), Tail(calls))

Call(op, id, arg) == [op |-> op, id |-> id, arg |-> arg]


(***************************************************************************)
(* The handlers of src/shared/db.js.  Each handler reads first and then    *)
(* issues its store calls one HTTP request after the other; XCalls is the  *)
(* sequence of calls the handler issues before it returns or throws, X is  *)
(* the database after all of them, XThrows tells whether it throws.        *)
(***************************************************************************)
AllStopTypes == {1, 2, 3}

\* the rows indexed on the side of the position itself
StopRows_OwnSide(tick, asset_id, position_id, sl_x6, tp_x6, liq_x6, long_side, lots) ==
    LET wanted == (IF sl_x6 # 0 THEN {[px |-> sl_x6, type |-> 1]} ELSE {})
                  \cup (IF tp_x6 # 0 THEN {[px |-> tp_x6, type |-> 2]} ELSE {})
                  \cup (IF liq_x6 # 0 THEN {[px |-> liq_x6, type |-> 3]} ELSE {})
    IN  {[asset_id |-> asset_id, bucket_id |-> divFloor(r.px, tick),
          position_id |-> position_id, stop_type |-> r.type,
          lots |-> lots, side |-> long_side] : r \in wanted}

StopRows(tick, asset_id, position_id, sl_x6, tp_x6, liq_x6, long_side, lots) ==
    LET wanted == (IF sl_x6 # 0 THEN {[px |-> sl_x6, type |-> 1]} ELSE {})
                  \cup (IF tp_x6 # 0 THEN {[px |-> tp_x6, type |-> 2]} ELSE {})
                  \cup (IF liq_x6 # 0 THEN {[px |-> liq_x6, type |-> 3]} ELSE {})
    IN  {[asset_id |-> asset_id, bucket_id |-> divFloor(r.px, tick),
          position_id |-> position_id, stop_type |-> r.type,
          lots |-> lots, side |-> ~long_side] : r \in wanted}

indexStopsThrows(as, asset_id, sl_x6, tp_x6, liq_x6) ==
    /\ sl_x6 # 0 \/ tp_x6 # 0 \/ liq_x6 # 0
    /\ as[asset_id].tick_size_usd6 = 0

indexStops(as, asset_id, position_id, sl_x6, tp_x6, liq_x6, long_side, lots) ==
    IF (sl_x6 = 0 /\ tp_x6 = 0 /\ liq_x6 = 0) \/ as[asset_id].tick_size_usd6 = 0
    THEN << >>
    ELSE << Call("postStopBuckets", position_id,
                 StopRows(as[asset_id].tick_size_usd6, asset_id, position_id,
                          sl_x6, tp_x6, liq_x6, long_side, lots)) >>

computeThrows(leverage_x, lot_den) == leverage_x = 0 \/ lot_den = 0

OpenedRow(as, ev) ==
    LET calc == computeNotionalAndMargin(ev.px, ev.lots, ev.leverageX,
                                         as[ev.asset].lot_num, as[ev.asset].lot_den)
    IN  [state         |-> ev.state,
         asset_id      |-> ev.asset,
         long_side     |-> ev.longSide,
         lots          |-> ev.lots,
         leverage_x    |-> ev.leverageX,
         entry_x6      |-> IF ev.state = 1 THEN ev.px ELSE 0,
         target_x6     |-> IF ev.state = 0 THEN ev.px ELSE 0,
         sl_x6         |-> ev.slX6,
         tp_x6         |-> ev.tpX6,
         liq_x6        |-> ev.liqX6,
         notional_usd6 |-> IF ev.state = 1 /\ calc.notional_usd6 # 0
                           THEN calc.notional_usd6 ELSE NULL,
         margin_usd6   |-> IF ev.state = 1 /\ calc.margin_usd6 # 0
                           THEN calc.margin_usd6 ELSE NULL,
         close_reason  |-> NULL,
         exec_x6       |-> NULL,
         pnl_usd6      |-> NULL]

upsertOpenedEventThrows(as, ev) ==
    \/ ev.state = 1 /\ computeThrows(ev.leverageX, as[ev.asset].lot_den)
    \/ ev.state = 0 /\ as[ev.asset].tick_size_usd6 = 0
    \/ ev.state # 0 /\ indexStopsThrows(as, ev.asset, ev.slX6, ev.tpX6, ev.liqX6)

upsertOpenedEventCalls(as, ev) ==
    IF ev.state = 1 /\ computeThrows(ev.leverageX, as[ev.asset].lot_den) THEN << >>
    ELSE << Call("postPositions", ev.id, OpenedRow(as, ev)) >>
         \o (IF ev.state = 0
             THEN IF as[ev.asset].tick_size_usd6 = 0 THEN << >>
                  ELSE << Call("postOrderBuckets", ev.id,
                               [asset_id |-> ev.asset,
                                bucket_id |-> divFloor(ev.px, as[ev.asset].tick_size_usd6),
                                position_id |-> ev.id,
                                lots |-> ev.lots,
                                side |-> ev.longSide]) >>
             ELSE << Call("delStopBuckets", ev.id, AllStopTypes) >>
                  \o indexStops(as, ev.asset, ev.id, ev.slX6, ev.tpX6, ev.liqX6,
                                ev.longSide, ev.lots))

upsertOpenedEvent(as, db, ev) == ApplyCalls(db, upsertOpenedEventCalls(as, ev))

handleExecutedEventThrows(as, db, ev) ==
    LET pos == db.positions[ev.id]
    IN  \/ pos = NoRow
        \/ computeThrows(pos.leverage_x, as[pos.asset_id].lot_den)
        \/ indexStopsThrows(as, pos.asset_id, pos.sl_x6, pos.tp_x6, pos.liq_x6)

\* the handler returning early on a position already OPEN, after its deletes
handleExecutedEventCalls_EarlyReturn(as, db, ev) ==
    LET pos == db.positions[ev.id]
    IN  IF pos = NoRow THEN << >>
        ELSE LET calc == computeNotionalAndMargin(ev.px, pos.lots, pos.leverage_x,
                             as[pos.asset_id].lot_num, as[pos.asset_id].lot_den)
             IN  << Call("patchPositions", ev.id,
                         [state |-> 1, entry_x6 |-> ev.px,
                          notional_usd6 |-> calc.notional_usd6,
                          margin_usd6 |-> calc.margin_usd6]),
                    Call("delOrderBuckets", ev.id, {}),
                    Call("delStopBuckets", ev.id, AllStopTypes) >>
                 \o (IF pos.state = 1 THEN << >>
                     ELSE indexStops(as, pos.asset_id, ev.id, pos.sl_x6, pos.tp_x6,
                                     pos.liq_x6, pos.long_side, pos.lots))

\* the handler without the delete of the order_buckets row
handleExecutedEventCalls_KeepOrderBucket(as, db, ev) ==
    LET pos == db.positions[ev.id]
    IN  IF pos = NoRow THEN << >>
        ELSE LET calc == computeNotionalAndMargin(ev.px, pos.lots, pos.leverage_x,
                             as[pos.asset_id].lot_num, as[pos.asset_id].lot_den)
             IN  << Call("patchPositions", ev.id,
                         [state |-> 1, entry_x6 |-> ev.px,
                          notional_usd6 |-> calc.notional_usd6,
                          margin_usd6 |-> calc.margin_usd6]),
                    Call("delStopBuckets", ev.id, AllStopTypes) >>
                 \o indexStops(as, pos.asset_id, ev.id, pos.sl_x6, pos.tp_x6, pos.liq_x6,
                               pos.long_side, pos.lots)

\* the handler patching the state without the entry price
handleExecutedEventCalls_NoEntry(as, db, ev) ==
    LET pos == db.positions[ev.id]
    IN  IF pos = NoRow THEN << >>
        ELSE << Call("patchPositions", ev.id, [state |-> 1]),
                Call("delOrderBuckets", ev.id, {}),
                Call("delStopBuckets", ev.id, AllStopTypes) >>
             \o indexStops(as, pos.asset_id, ev.id, pos.sl_x6, pos.tp_x6, pos.liq_x6,
                           pos.long_side, pos.lots)

handleExecutedEventCalls(as, db, ev) ==
    LET pos == db.positions[ev.id]
    IN  IF pos = NoRow THEN << >>
        ELSE IF computeThrows(pos.leverage_x, as[pos.asset_id].lot_den) THEN << >>
        ELSE LET calc == computeNotionalAndMargin(ev.px, pos.lots, pos.leverage_x,
                             as[pos.asset_id].lot_num, as[pos.asset_id].lot_den)
             IN  << Call("patchPositions", ev.id,
                         [state |-> 1, entry_x6 |-> ev.px,
                          notional_usd6 |-> calc.notional_usd6,
                          margin_usd6 |-> calc.margin_usd6]),
                    Call("delOrderBuckets", ev.id, {}),
                    Call("delStopBuckets", ev.id, AllStopTypes) >>
                 \o indexStops(as, pos.asset_id, ev.id, pos.sl_x6, pos.tp_x6, pos.liq_x6,
                               pos.long_side, pos.lots)

handleExecutedEvent(as, db, ev) == ApplyCalls(db, handleExecutedEventCalls(as, db, ev))

handleStopsUpdatedEventThrows(as, db, ev) ==
    LET pos == db.positions[ev.id]
    IN  \/ pos = NoRow
        \/ indexStopsThrows(as, pos.asset_id, ev.slX6, ev.tpX6, 0)

\* the handler deleting every stop_buckets row of the id, LIQ included
handleStopsUpdatedEventCalls_DelAll(as, db, ev) ==
    LET pos == db.positions[ev.id]
    IN  IF pos = NoRow THEN << >>
        ELSE << Call("patchPositions", ev.id, [sl_x6 |-> ev.slX6, tp_x6 |-> ev.tpX6]),
                Call("delStopBuckets", ev.id, AllStopTypes) >>
             \o indexStops(as, pos.asset_id, ev.id, ev.slX6, ev.tpX6, 0,
                           pos.long_side, pos.lots)

\* the handler inserting the new rows without deleting the previous ones
handleStopsUpdatedEventCalls_NoDelete(as, db, ev) ==
    LET pos == db.positions[ev.id]
    IN  IF pos = NoRow THEN << >>
        ELSE << Call("patchPositions", ev.id, [sl_x6 |-> ev.slX6, tp_x6 |-> ev.tpX6]) >>
             \o indexStops(as, pos.asset_id, ev.id, ev.slX6, ev.tpX6, 0,
                           pos.long_side, pos.lots)

\* the handler reading the fields of a row that is not there as defaults
handleStopsUpdatedEventCalls_NoRowCheck(as, db, ev) ==
    LET pos == db.positions[ev.id]
    IN  IF pos = NoRow
        THEN << Call("patchPositions", ev.id, [sl_x6 |-> ev.slX6, tp_x6 |-> ev.tpX6]),
                Call("delStopBuckets", ev.id, {1, 2}) >>
             \o indexStops(as, 0, ev.id, ev.slX6, ev.tpX6, 0, FALSE, 0)
        ELSE << Call("patchPositions", ev.id, [sl_x6 |-> ev.slX6, tp_x6 |-> ev.tpX6]),
                Call("delStopBuckets", ev.id, {1, 2}) >>
             \o indexStops(as, pos.asset_id, ev.id, ev.slX6, ev.tpX6, 0,
                           pos.long_side, pos.lots)

handleStopsUpdatedEventCalls(as, db, ev) ==
    LET pos == db.positions[ev.id]
    IN  IF pos = NoRow THEN << >>
        ELSE << Call("patchPositions", ev.id, [sl_x6 |-> ev.slX6, tp_x6 |-> ev.tpX6]),
                Call("delStopBuckets", ev.id, {1, 2}) >>
             \o indexStops(as, pos.asset_id, ev.id, ev.slX6, ev.tpX6, 0,
                           pos.long_side, pos.lots)

handleStopsUpdatedEvent(as, db, ev) == ApplyCalls(db, handleStopsUpdatedEventCalls(as, db, ev))

handleRemovedEventCalls(ev) ==
    << Call("patchPositions", ev.id,
            [state |-> 2, close_reason |-> ev.reason,
             exec_x6 |-> ev.execX6, pnl_usd6 |-> ev.pnlUsd6]),
       Call("delStopBuckets", ev.id, AllStopTypes) >>

handleRemovedEvent(db, ev) == ApplyCalls(db, handleRemovedEventCalls(ev))

\* the calls and the result of the handler of one event, by its kind
HandlerCalls(as, db, ev) ==
    CASE ev.kind = "Opened"       -> upsertOpenedEventCalls(as, ev)
      [] ev.kind = "Executed"     -> handleExecutedEventCalls(as, db, ev)
      [] ev.kind = "StopsUpdated" -> handleStopsUpdatedEventCalls(as, db, ev)
      [] ev.kind = "Removed"      -> handleRemovedEventCalls(ev)

Handle(as, db, ev) == ApplyCalls(db, HandlerCalls(as, db, ev))

(***************************************************************************)
(* Events, as decoded from the chain logs.                                 *)
(***************************************************************************)
Event(kind, id) ==
    [kind |-> kind, id |-> id, state |-> 0, asset |-> 0, longSide |-> FALSE,
     lots |-> 0, leverageX |-> 0, px |-> 0, slX6 |-> 0, tpX6 |-> 0, liqX6 |-> 0,
     reason |-> 0, execX6 |-> 0, pnlUsd6 |-> 0]

OpenedEv(id, state, asset, longSide, lots, px, slX6, tpX6, liqX6, leverageX) ==
    [Event("Opened", id) EXCEPT !.state = state, !.asset = asset, !.longSide = longSide,
        !.lots = lots, !.px = px, !.slX6 = slX6, !.tpX6 = tpX6, !.liqX6 = liqX6,
        !.leverageX = leverageX]

ExecutedEv(id, entryX6) == [Event("Executed", id) EXCEPT !.px = entryX6]

StopsUpdatedEv(id, slX6, tpX6) ==
    [Event("StopsUpdated", id) EXCEPT !.slX6 = slX6, !.tpX6 = tpX6]

RemovedEv(id, reason, execX6, pnlUsd6) ==
    [Event("Removed", id) EXCEPT !.reason = reason, !.execX6 = execX6, !.pnlUsd6 = pnlUsd6]


(***************************************************************************)
(* State-only reconciliation, src/manual_state.js.                         *)
(***************************************************************************)
\* the counters of both reconcilers (created and statePatched: full reconciler)
ZeroOut == [patched |-> 0, executed |-> 0, stops |-> 0, removed |-> 0,
            skipped |-> 0, missingDb |-> 0, rpcFailed |-> 0,
            created |-> 0, statePatched |-> 0]

Res(db, out) == [db |-> db, out |-> out]

patchDbState(db, id, state) == patchPositions(db, id, [state |-> state])

OrdersOf(db, id) == {r \in db.order_buckets : r.position_id = id}
StopsOf(db, id) == {r \in db.stop_buckets : r.position_id = id}

\* orders[0] is the first row PostgREST returns: any row when there are several,
\* but the test asks for exactly one row first
orderIndexedEqual(orders, lots, long_side) ==
    /\ Cardinality(orders) = 1
    /\ \A o \in orders : o.lots = lots /\ o.side = long_side

stopsIndexedOkForOpen(stops, row) ==
    LET need == (IF row.sl_x6 # 0 THEN {1} ELSE {})
                \cup (IF row.tp_x6 # 0 THEN {2} ELSE {})
                \cup (IF row.liq_x6 # 0 THEN {3} ELSE {})
    IN  \A w \in need :
            \E r \in stops : /\ r.stop_type = w
                             /\ r.lots = row.lots
                             /\ r.side = ~row.long_side

hasAnyIndex(orders, stops) == orders # {} \/ stops # {}

\* the Opened event reconcileStateOnly rebuilds from the row of an ORDER
OpenedFromRow(id, row) ==
    OpenedEv(id, 0, row.asset_id, row.long_side, row.lots, row.target_x6,
             row.sl_x6, row.tp_x6, row.liq_x6, row.leverage_x)

\* entry price replayed by the reconciler: the stored entry, else the target
ReplayEntry(row) == IF row.entry_x6 # 0 THEN row.entry_x6 ELSE row.target_x6

\* the reconciler patching the state instead of replaying Executed
reconcileOrderToOpen_PatchOnly(as, db, id) ==
    LET row == db.positions[id]
    IN  Res(patchDbState(db, id, 1),
            [ZeroOut EXCEPT !.executed = 1,
                            !.stops = IF row.sl_x6 # 0 \/ row.tp_x6 # 0 THEN 1 ELSE 0])

\* lines 163-183: DB ORDER, chain OPEN
reconcileOrderToOpen(as, db, id) ==
    LET row     == db.positions[id]
        entryX6 == ReplayEntry(row)
        ex      == ExecutedEv(id, entryX6)
        su      == StopsUpdatedEv(id, row.sl_x6, row.tp_x6)
        db1     == IF entryX6 # 0 THEN handleExecutedEvent(as, db, ex)
                   ELSE patchDbState(db, id, 1)
        out1    == IF entryX6 # 0 THEN [ZeroOut EXCEPT !.executed = 1]
                   ELSE [ZeroOut EXCEPT !.patched = 1]
    IN  IF entryX6 # 0 /\ handleExecutedEventThrows(as, db, ex)
        THEN Res(db1, [ZeroOut EXCEPT !.rpcFailed = 1])
        ELSE IF row.sl_x6 # 0 \/ row.tp_x6 # 0
             THEN IF handleStopsUpdatedEventThrows(as, db1, su)
                  THEN Res(handleStopsUpdatedEvent(as, db1, su), [out1 EXCEPT !.rpcFailed = 1])
                  ELSE Res(handleStopsUpdatedEvent(as, db1, su), [out1 EXCEPT !.stops = 1])
             ELSE Res(db1, out1)

\* lines 186-196 and 210-223: Removed injected with the reason of the chain state
reconcileRemoved(db, id, chainState) ==
    LET db1 == handleRemovedEvent(db, RemovedEv(id, IF chainState = 3 THEN 0 ELSE 1, 0, 0))
        db2 == IF chainState = 3 THEN patchDbState(db1, id, 3) ELSE db1
    IN  Res(db2, [ZeroOut EXCEPT !.removed = 1])

\* lines 226-251: both ORDER
reconcileOrderIndex(as, db, id) ==
    LET row == db.positions[id]
        ev  == OpenedFromRow(id, row)
    IN  IF ~orderIndexedEqual(OrdersOf(db, id), row.lots, row.long_side)
        THEN IF upsertOpenedEventThrows(as, ev)
             THEN Res(upsertOpenedEvent(as, db, ev), [ZeroOut EXCEPT !.rpcFailed = 1])
             ELSE Res(upsertOpenedEvent(as, db, ev), [ZeroOut EXCEPT !.executed = 1])
        ELSE Res(db, [ZeroOut EXCEPT !.skipped = 1])

\* lines 254-285: both OPEN
reconcileOpenIndex(as, db, id) ==
    LET row     == db.positions[id]
        entryX6 == ReplayEntry(row)
        ex      == ExecutedEv(id, entryX6)
        su      == StopsUpdatedEv(id, row.sl_x6, row.tp_x6)
    IN  IF OrdersOf(db, id) # {}
        THEN IF entryX6 # 0
             THEN IF handleExecutedEventThrows(as, db, ex)
                  THEN Res(handleExecutedEvent(as, db, ex), [ZeroOut EXCEPT !.rpcFailed = 1])
                  ELSE Res(handleExecutedEvent(as, db, ex), [ZeroOut EXCEPT !.executed = 1])
             ELSE Res(patchDbState(db, id, 1), [ZeroOut EXCEPT !.executed = 1])
        ELSE IF ~stopsIndexedOkForOpen(StopsOf(db, id), row)
        THEN IF handleStopsUpdatedEventThrows(as, db, su)
             THEN Res(handleStopsUpdatedEvent(as, db, su), [ZeroOut EXCEPT !.rpcFailed = 1])
             ELSE Res(handleStopsUpdatedEvent(as, db, su), [ZeroOut EXCEPT !.stops = 1])
        ELSE Res(db, [ZeroOut EXCEPT !.skipped = 1])

\* reconcileStateOnly(id, ctx) with stateOf(id) = chainState, every call succeeding
reconcileStateOnly(as, db, id, chainState) ==
    LET row == db.positions[id]
    IN  IF row = NoRow THEN Res(db, [ZeroOut EXCEPT !.missingDb = 1])
        ELSE IF row.state # chainState
        THEN IF row.state = 0 /\ chainState = 1 THEN reconcileOrderToOpen(as, db, id)
             ELSE IF row.state = 1 /\ chainState \in {2, 3}
                  THEN reconcileRemoved(db, id, chainState)
             ELSE Res(patchDbState(db, id, chainState), [ZeroOut EXCEPT !.patched = 1])
        ELSE IF chainState \in {2, 3}
             THEN IF hasAnyIndex(OrdersOf(db, id), StopsOf(db, id))
                  THEN reconcileRemoved(db, id, chainState)
                  ELSE Res(db, [ZeroOut EXCEPT !.skipped = 1])
        ELSE IF chainState = 0 THEN reconcileOrderIndex(as, db, id)
        ELSE IF chainState = 1 THEN reconcileOpenIndex(as, db, id)
        ELSE Res(db, [ZeroOut EXCEPT !.skipped = 1])


(***************************************************************************)
(* Full reconciliation, reconcileId of the manual job (stateOf + getTrade). *)
(* t is the trade getTrade returns, NoTrade for a zero owner.              *)
(***************************************************************************)
dbAndChainEqualOrder(row, t) ==
    /\ row.state = 0
    /\ row.target_x6 = t.targetX6
    /\ row.asset_id = t.asset
    /\ row.lots = t.lots
    /\ row.leverage_x = t.leverageX
    /\ row.long_side = t.longSide

dbAndChainEqualOpen(row, t) ==
    /\ row.state = 1
    /\ row.entry_x6 = t.entryX6
    /\ row.sl_x6 = t.slX6
    /\ row.tp_x6 = t.tpX6
    /\ row.liq_x6 = t.liqX6
    /\ row.asset_id = t.asset
    /\ row.lots = t.lots
    /\ row.leverage_x = t.leverageX
    /\ row.long_side = t.longSide

stopsIndexedEqual(haveStops, sl_x6, tp_x6, liq_x6, lots, long_side) ==
    LET wanted == (IF sl_x6 # 0 THEN {1} ELSE {})
                  \cup (IF tp_x6 # 0 THEN {2} ELSE {})
                  \cup (IF liq_x6 # 0 THEN {3} ELSE {})
    IN  /\ Cardinality(haveStops) = Cardinality(wanted)
        /\ \A w \in wanted :
              \E r \in haveStops : r.stop_type = w /\ r.lots = lots /\ r.side = ~long_side

\* lines 220-257: chain ORDER
fullOrder(as, db, id, t) ==
    LET row == db.positions[id]
    IN  IF row = NoRow \/ ~dbAndChainEqualOrder(row, t)
        THEN Res(upsertOpenedEvent(as, db,
                    OpenedEv(id, 0, t.asset, t.longSide, t.lots, t.targetX6,
                             t.slX6, t.tpX6, t.liqX6, t.leverageX)),
                 [ZeroOut EXCEPT !.created = 1])
        ELSE IF ~orderIndexedEqual(OrdersOf(db, id), row.lots, row.long_side)
        THEN Res(upsertOpenedEvent(as, db, OpenedFromRow(id, row)),
                 [ZeroOut EXCEPT !.created = 1])
        ELSE Res(db, [ZeroOut EXCEPT !.skipped = 1])

\* lines 275-308: chain OPEN, row present; the row is the one read at line 217
fullOpenRow(as, db, id, t) ==
    LET row     == db.positions[id]
        doExec  == row.entry_x6 # t.entryX6
        db1     == IF doExec THEN handleExecutedEvent(as, db, ExecutedEv(id, t.entryX6)) ELSE db
        doStops == ~stopsIndexedEqual(StopsOf(db1, id), t.slX6, t.tpX6, t.liqX6,
                                      row.lots, row.long_side)
        db2     == IF doStops
                   THEN handleStopsUpdatedEvent(as, db1, StopsUpdatedEv(id, t.slX6, t.tpX6))
                   ELSE db1
        counted == [ZeroOut EXCEPT !.executed = IF doExec THEN 1 ELSE 0,
                                   !.stops = IF doStops THEN 1 ELSE 0]
    IN  IF row.state = 0 THEN Res(db2, counted)
        ELSE IF dbAndChainEqualOpen(row, t) THEN Res(db, [ZeroOut EXCEPT !.skipped = 1])
        ELSE IF row.state # 1
             THEN Res(patchDbState(db2, id, 1), [counted EXCEPT !.statePatched = 1])
        ELSE Res(db2, [counted EXCEPT !.skipped = IF doExec \/ doStops THEN 0 ELSE 1])

\* lines 311-321: chain CLOSED or CANCELLED
fullRemoved(db, id, state) ==
    LET row == db.positions[id]
        needRemoved == row = NoRow \/ row.state # 2 \/ (state = 3 /\ row.state # 3)
    IN  IF needRemoved
        THEN LET db1 == handleRemovedEvent(db, RemovedEv(id, IF state = 3 THEN 0 ELSE 1, 0, 0))
             IN  Res(IF state = 3 THEN patchDbState(db1, id, 3) ELSE db1,
                     [ZeroOut EXCEPT !.removed = 1])
        ELSE Res(db, [ZeroOut EXCEPT !.skipped = 1])

reconcileId(as, db, id, state, t) ==
    IF t = NoTrade THEN Res(db, [ZeroOut EXCEPT !.skipped = 1])
    ELSE IF state = 0 THEN fullOrder(as, db, id, t)
    ELSE IF state = 1
         THEN IF db.positions[id] = NoRow
              THEN Res(upsertOpenedEvent(as, db,
                          OpenedEv(id, 1, t.asset, t.longSide, t.lots, t.entryX6,
                                   t.slX6, t.tpX6, t.liqX6, t.leverageX)),
                       [ZeroOut EXCEPT !.created = 1])
              ELSE fullOpenRow(as, db, id, t)
    ELSE IF state \in {2, 3} THEN fullRemoved(db, id, state)
    ELSE Res(db, [ZeroOut EXCEPT !.skipped = 1])

(***************************************************************************)
(* The chain: the contract assigns ids in sequence, keeps the trade and    *)
(* emits one event per transition.  A trade keeps the Opened event it was  *)
(* created with; its Executed, latest StopsUpdated and Removed events are  *)
(* read back from its fields.                                              *)
(***************************************************************************)
AssetRows == [a \in AssetIds |-> [tick_size_usd6 |-> 10, lot_num |-> 3, lot_den |-> 2]]

Trade(ev) ==
    [state |-> ev.state, asset |-> ev.asset, longSide |-> ev.longSide, lots |-> ev.lots,
     leverageX |-> ev.leverageX,
     entryX6 |-> IF ev.state = 1 THEN ev.px ELSE 0,
     targetX6 |-> IF ev.state = 0 THEN ev.px ELSE 0,
     slX6 |-> ev.slX6, tpX6 |-> ev.tpX6, liqX6 |-> ev.liqX6,
     opened |-> ev, stopsUpdated |-> FALSE, reason |-> NULL]

\* stateOf(id): 0 for an id the contract has not assigned
stateOf(id) == IF chain[id] = NoTrade THEN 0 ELSE chain[id].state

\* events of the id emitted so far
HasExecuted(id) == chain[id] # NoTrade /\ chain[id].opened.state = 0 /\ chain[id].entryX6 # 0
HasStopsUpdated(id) == chain[id] # NoTrade /\ chain[id].stopsUpdated
HasRemoved(id) == chain[id] # NoTrade /\ chain[id].state \in {2, 3}

ExecutedOf(id) == ExecutedEv(id, chain[id].entryX6)
StopsUpdatedOf(id) == StopsUpdatedEv(id, chain[id].slX6, chain[id].tpX6)
RemovedOf(id) ==
    RemovedEv(id, chain[id].reason, IF chain[id].reason = 0 THEN 0 ELSE 20, 7)

\* the events a consumer may be handed: those of the trades of the run
Emitted ==
    {chain[id].opened : id \in {i \in Live : chain[i] # NoTrade}}
    \cup {ExecutedOf(id) : id \in {i \in Live : HasExecuted(i)}}
    \cup {StopsUpdatedOf(id) : id \in {i \in Live : HasStopsUpdated(i)}}
    \cup {RemovedOf(id) : id \in {i \in Live : HasRemoved(i)}}

ProjectionUnchanged == UNCHANGED <<positions, order_buckets, stop_buckets, exposure_agg>>

ChainOpen ==
    \E id \in Live, state \in {0, 1}, asset \in AssetIds, longSide \in BOOLEAN,
       lots \in LotsSet, px \in OpenPrices, st \in OpenStops,
       liqX6 \in LiqPrices, leverageX \in Leverages :
        /\ task = << >>
        /\ chain[id] = NoTrade
        /\ \A i \in Ids : i < id => chain[i] # NoTrade
        /\ chain' = [chain EXCEPT ![id] =
                Trade(OpenedEv(id, state, asset, longSide, lots, px, st[1], st[2], liqX6, leverageX))]
        /\ ProjectionUnchanged
        /\ UNCHANGED <<assets, consumer, job, task, last>>

ChainExecute ==
    \E id \in Live, entryX6 \in ExecPrices :
        /\ task = << >>
        /\ chain[id] # NoTrade
        /\ chain[id].state = 0
        /\ chain' = [chain EXCEPT ![id].state = 1, ![id].entryX6 = entryX6]
        /\ ProjectionUnchanged
        /\ UNCHANGED <<assets, consumer, job, task, last>>

ChainUpdateStops ==
    \E id \in Live, slX6 \in SlPrices, tpX6 \in TpPrices :
        /\ task = << >>
        /\ chain[id] # NoTrade
        /\ chain[id].state = 1
        /\ chain' = [chain EXCEPT ![id].slX6 = slX6, ![id].tpX6 = tpX6,
                                  ![id].stopsUpdated = TRUE]
        /\ ProjectionUnchanged
        /\ UNCHANGED <<assets, consumer, job, task, last>>

ChainRemove ==
    \E id \in Live, reason \in {0} \cup CloseReasons :
        /\ task = << >>
        /\ chain[id] # NoTrade
        /\ \/ chain[id].state = 0 /\ reason = 0
           \/ chain[id].state = 1 /\ reason # 0
        /\ chain' = [chain EXCEPT ![id].state = IF reason = 0 THEN 3 ELSE 2,
                                  ![id].reason = reason]
        /\ ProjectionUnchanged
        /\ UNCHANGED <<assets, consumer, job, task, last>>

(***************************************************************************)
(* The projection: a consumer hands an emitted event to its handler, a     *)
(* reconciler is run on an id.  Each runs to completion.                   *)
(***************************************************************************)
SetDB(db) ==
    /\ positions' = db.positions
    /\ order_buckets' = db.order_buckets
    /\ stop_buckets' = db.stop_buckets
    /\ exposure_agg' = db.exposure_agg

\* pre is the stored state of the id before the operation, NULL for no row
Last(op, ev, out) ==
    [op |-> op, id |-> ev.id, out |-> out,
     pre |-> IF ev.id \in Ids THEN positions[ev.id].state ELSE NULL]

Deliver(ev) ==
    /\ task = << >>
    /\ SetDB(Handle(assets, DB, ev))
    /\ last' = Last(ev.kind, ev, ZeroOut)
    /\ UNCHANGED <<assets, consumer, job, chain, task>>

DeliverOpened == \E ev \in Emitted : ev.kind = "Opened" /\ Deliver(ev)
DeliverExecuted == \E ev \in Emitted : ev.kind = "Executed" /\ Deliver(ev)
DeliverStopsUpdated == \E ev \in Emitted : ev.kind = "StopsUpdated" /\ Deliver(ev)
DeliverRemoved == \E ev \in Emitted : ev.kind = "Removed" /\ Deliver(ev)

StateOnly ==
    \E id \in Live :
        LET r == reconcileStateOnly(assets, DB, id, stateOf(id))
        IN  /\ task = << >>
            /\ SetDB(r.db)
            /\ last' = Last("StateOnly", Event("StateOnly", id), r.out)
            /\ UNCHANGED <<assets, consumer, job, chain, task>>

Full ==
    \E id \in Live :
        LET r == reconcileId(assets, DB, id, stateOf(id), chain[id])
        IN  /\ task = << >>
            /\ SetDB(r.db)
            /\ last' = Last("Full", Event("Full", id), r.out)
            /\ UNCHANGED <<assets, consumer, job, chain, task>>

\* the sum of two results' counters
AddOut(x, y) == [k \in DOMAIN x |-> x[k] + y[k]]

\* one run of the full reconciler over the ids, in ascending order: the
\* database it leaves and the counters it accumulates
RECURSIVE workerMain(_, _)
workerMain(db, ids) ==
    IF ids = {} THEN Res(db, [k \in DOMAIN ZeroOut |-> 0])
    ELSE LET id   == CHOOSE i \in ids : \A j \in ids : i <= j
             r    == reconcileId(assets, db, id, stateOf(id), chain[id])
             rest == workerMain(r.db, ids \ {id})
         IN  Res(rest.db, AddOut(r.out, rest.out))

\* no batch job is running
NoJob == [kind |-> "none"]

\* a consumer process as pm2 starts it: running, its socket open, no event
\* yet; idle is the time in seconds since the last event (or the start),
\* phase the time since the last run of the watchdog interval
Started(kind) ==
    [kind |-> kind, alive |-> TRUE, code |-> NULL, ws |-> "open", idle |-> 0, phase |-> 0]

\* the older trade and the projection that holds only that trade
OldOpened == OpenedEv(Old, 1, 0, TRUE, 1, 25, 0, 0, 5, 2)

EmptyDB == [positions |-> [id \in Ids |-> NoRow], order_buckets |-> {},
            stop_buckets |-> {},
            exposure_agg |-> [k \in AssetIds \X BOOLEAN |-> ZeroAgg]]

InitDB == upsertOpenedEvent(AssetRows, EmptyDB, OldOpened)

Init ==
    /\ assets = AssetRows
    /\ consumer = Started("Opened")
    /\ job = NoJob
    /\ chain = [id \in Ids |-> IF id = Old THEN Trade(OldOpened) ELSE NoTrade]
    /\ positions = InitDB.positions
    /\ order_buckets = InitDB.order_buckets
    /\ stop_buckets = InitDB.stop_buckets
    /\ exposure_agg = InitDB.exposure_agg
    /\ task = << >>
    /\ last = Last("Init", Event("Init", 0), ZeroOut)

Next ==
    \/ ChainOpen
    \/ ChainExecute
    \/ ChainUpdateStops
    \/ ChainRemove
    \/ DeliverOpened
    \/ DeliverExecuted
    \/ DeliverStopsUpdated
    \/ DeliverRemoved
    \/ StateOnly
    \/ Full

Spec == Init /\ [][Next]_vars

(***************************************************************************)
(* The handlers one store call at a time.  A handler reads, then awaits    *)
(* its HTTP requests one after the other; a request that fails makes the   *)
(* handler throw, the requests behind it are never sent and the consumer   *)
(* logs the error.  task holds the run in flight, with the database it     *)
(* started from.                                                           *)
(***************************************************************************)
Run(ev, calls, pre) == [kind |-> ev.kind, id |-> ev.id, calls |-> calls, pre |-> pre]

\* a consumer receives an event and its handler computes its requests
Begin ==
    \E ev \in Emitted :
        /\ task = << >>
        /\ HandlerCalls(assets, DB, ev) # << >>
        /\ task' = << Run(ev, HandlerCalls(assets, DB, ev), DB) >>
        /\ UNCHANGED <<assets, consumer, job, chain, positions, order_buckets, stop_buckets,
                       exposure_agg, last>>

\* the next request of the run succeeds
Step ==
    /\ task # << >>
    /\ LET run == Head(task)
       IN  /\ SetDB(ApplyCall(DB, Head(run.calls)))
           /\ IF Len(run.calls) = 1
              THEN /\ task' = << >>
                   /\ last' = [op |-> run.kind, id |-> run.id, out |-> ZeroOut,
                               pre |-> run.pre.positions[run.id].state]
              ELSE /\ task' = << [run EXCEPT !.calls = Tail(@)] >>
                   /\ last' = last
    /\ UNCHANGED <<assets, consumer, job, chain>>

\* the next request of the run fails: ok() throws and the handler ends there
Fail ==
    /\ task # << >>
    /\ task' = << >>
    /\ last' = [op |-> "Failed", id |-> Head(task).id, out |-> ZeroOut,
                pre |-> Head(task).pre.positions[Head(task).id].state]
    /\ UNCHANGED <<assets, consumer, job, chain, positions, order_buckets, stop_buckets, exposure_agg>>

NextSteps ==
    \/ ChainOpen
    \/ ChainExecute
    \/ ChainUpdateStops
    \/ ChainRemove
    \/ Begin
    \/ Step
    \/ Fail

SpecSteps == Init /\ [][NextSteps]_vars


(***************************************************************************)
(* The consumers on an asset whose tick_size_usd6 is not positive.  The    *)
(* handlers do not test the tick: BigInt division by 0n throws a           *)
(* RangeError at the point of the division, after the requests already     *)
(* awaited; division by a negative tick does not throw.                    *)
(***************************************************************************)
BadTicks == {0, -10}

InitTick ==
    /\ assets \in {[a \in AssetIds |-> [AssetRows[a] EXCEPT !.tick_size_usd6 = t]]
                      : t \in BadTicks}
    /\ consumer = Started("Opened")
    /\ job = NoJob
    /\ chain = [id \in Ids |-> IF id = Old THEN Trade(OldOpened) ELSE NoTrade]
    /\ positions = InitDB.positions
    /\ order_buckets = InitDB.order_buckets
    /\ stop_buckets = InitDB.stop_buckets
    /\ exposure_agg = InitDB.exposure_agg
    /\ task = << >>
    /\ last = Last("Init", Event("Init", 0), ZeroOut)

NextTick ==
    \/ ChainOpen
    \/ ChainExecute
    \/ ChainUpdateStops
    \/ ChainRemove
    \/ DeliverOpened
    \/ DeliverExecuted
    \/ DeliverStopsUpdated
    \/ DeliverRemoved

SpecTick == InitTick /\ [][NextTick]_vars

(***************************************************************************)
(* The bucket computation on signed prices: the prices of the events are   *)
(* int64, and the handlers index whatever price the Opened event carries.  *)
(***************************************************************************)
SignedPrices == {-25, 25}
SignedStops == {<<0, 0>>, <<-15, -35>>, <<15, 35>>}

ChainOpenSigned ==
    \E id \in Live, state \in {0, 1}, asset \in AssetIds, longSide \in BOOLEAN,
       lots \in LotsSet, px \in SignedPrices, st \in SignedStops,
       liqX6 \in LiqPrices, leverageX \in Leverages :
        /\ task = << >>
        /\ chain[id] = NoTrade
        /\ chain' = [chain EXCEPT ![id] =
                Trade(OpenedEv(id, state, asset, longSide, lots, px, st[1], st[2], liqX6, leverageX))]
        /\ ProjectionUnchanged
        /\ UNCHANGED <<assets, consumer, job, task, last>>

NextSigned ==
    \/ ChainOpenSigned
    \/ ChainExecute
    \/ DeliverOpened
    \/ DeliverExecuted

SpecSigned == Init /\ [][NextSigned]_vars

(***************************************************************************)
(* Backfill: backfill_missing_auto lists the ids the projection lacks, the *)
(* holes below its highest id and the tail up to the highest id of the     *)
(* chain, and runs manual_backfill on them; hydrateIfMissing creates the   *)
(* row of a missing id from stateOf and getTrade.  Every read succeeds.    *)
(***************************************************************************)
MaxOf(S) == CHOOSE x \in S : \A y \in S : y <= x

\* nextId() - 1: the highest id the contract has assigned
chainMax == MaxOf({0} \cup {id \in Ids : chain[id] # NoTrade})

getAllDbIds(db) == {id \in Ids : db.positions[id] # NoRow}

getDbMaxId(db) == IF getAllDbIds(db) = {} THEN -1 ELSE MaxOf(getAllDbIds(db))

computeMissingIds(seen, maxId) == {i \in 1..maxId : i \notin seen}

idsToBackfill(db) ==
    LET dbMax         == getDbMaxId(db)
        missingUpToDb == computeMissingIds(getAllDbIds(db), dbMax)
        tailStart     == IF dbMax + 1 > 1 THEN dbMax + 1 ELSE 1
    IN  IF dbMax = chainMax THEN missingUpToDb
        ELSE missingUpToDb \cup (tailStart..chainMax)

\* the counters of manual_backfill
ZeroAcc == [createdOrder |-> 0, createdOpen |-> 0, executed |-> 0, stops |-> 0,
            removed |-> 0, skipped |-> 0, ownerZero |-> 0, rpcFailed |-> 0]

hydrateIfMissing(as, db, id, state, t) ==
    IF db.positions[id] # NoRow THEN Res(db, [ZeroAcc EXCEPT !.skipped = 1])
    ELSE IF t = NoTrade THEN Res(db, [ZeroAcc EXCEPT !.ownerZero = 1])
    ELSE IF state = 0
         THEN Res(upsertOpenedEvent(as, db,
                     OpenedEv(id, 0, t.asset, t.longSide, t.lots, t.targetX6,
                              t.slX6, t.tpX6, t.liqX6, t.leverageX)),
                  [ZeroAcc EXCEPT !.createdOrder = 1])
    ELSE IF state = 1
         THEN LET db1 == upsertOpenedEvent(as, db,
                             OpenedEv(id, 1, t.asset, t.longSide, t.lots, t.entryX6,
                                      t.slX6, t.tpX6, t.liqX6, t.leverageX))
              IN  IF t.slX6 # 0 \/ t.tpX6 # 0
                  THEN Res(handleStopsUpdatedEvent(as, db1, StopsUpdatedEv(id, t.slX6, t.tpX6)),
                           [ZeroAcc EXCEPT !.createdOpen = 1, !.stops = 1])
                  ELSE Res(db1, [ZeroAcc EXCEPT !.createdOpen = 1])
    ELSE IF state \in {2, 3}
         THEN LET db1 == handleRemovedEvent(db, RemovedEv(id, IF state = 3 THEN 0 ELSE 1, 0, 0))
              IN  Res(IF state = 3 THEN patchDbState(db1, id, 3) ELSE db1,
                      [ZeroAcc EXCEPT !.removed = 1])
    ELSE Res(db, [ZeroAcc EXCEPT !.skipped = 1])

\* manual_backfill --ids: the ids in ascending order (the workers take them
\* from one index, and two ids share no row)
RECURSIVE manualBackfill(_, _)
manualBackfill(db, ids) ==
    IF ids = {} THEN Res(db, ZeroAcc)
    ELSE LET id   == CHOOSE i \in ids : \A j \in ids : i <= j
             r    == hydrateIfMissing(assets, db, id, stateOf(id), chain[id])
             rest == manualBackfill(r.db, ids \ {id})
         IN  Res(rest.db, AddOut(r.out, rest.out))

Backfill ==
    LET r == manualBackfill(DB, idsToBackfill(DB))
    IN  /\ task = << >>
        /\ SetDB(r.db)
        /\ last' = Last("Backfill", Event("Backfill", 0), r.out)
        /\ UNCHANGED <<assets, consumer, job, chain, task>>

\* the consumers may have been down when the older trade was opened
InitBackfill ==
    \E db \in {EmptyDB, InitDB} :
        /\ assets = AssetRows
        /\ consumer = Started("Opened")
        /\ job = NoJob
        /\ chain = [id \in Ids |-> IF id = Old THEN Trade(OldOpened) ELSE NoTrade]
        /\ positions = db.positions
        /\ order_buckets = db.order_buckets
        /\ stop_buckets = db.stop_buckets
        /\ exposure_agg = db.exposure_agg
        /\ task = << >>
        /\ last = Last("Init", Event("Init", 0), ZeroOut)

NextBackfill ==
    \/ ChainOpen
    \/ ChainExecute
    \/ ChainUpdateStops
    \/ ChainRemove
    \/ DeliverOpened
    \/ DeliverExecuted
    \/ DeliverStopsUpdated
    \/ DeliverRemoved
    \/ Backfill

SpecBackfill == InitBackfill /\ [][NextBackfill]_vars

(***************************************************************************)
(* The consumers with handlers that overlap.  contract.on registers an     *)
(* async listener: the emitter calls it for each log in topic order and    *)
(* does not wait for the promise it returns, so the handler of the next    *)
(* event starts while the requests of the previous one are still awaited.  *)
(* Each consumer is a process of its own.  task holds the handlers in      *)
(* flight, each with the requests it still has to send; the listener is    *)
(* called when the chain emits the event.                                  *)
(***************************************************************************)
MaxOverlap == 2

\* of the database it started from, a handler in flight keeps the states
StatesOf(db) == [positions |-> [id \in Ids |-> [state |-> db.positions[id].state]]]

\* the listener is called with the event: the handler reads the row and has
\* its requests to send; a handler that throws on its read sends none
Listener(ev) ==
    LET calls == HandlerCalls(assets, DB, ev)
    IN  task' = IF calls = << >> THEN task
                ELSE Append(task, Run(ev, calls, StatesOf(DB)))

OnExecuted ==
    \E id \in Live, entryX6 \in ExecPrices :
        /\ Len(task) < MaxOverlap
        /\ chain[id] # NoTrade
        /\ chain[id].state = 0
        /\ chain' = [chain EXCEPT ![id].state = 1, ![id].entryX6 = entryX6]
        /\ Listener(ExecutedEv(id, entryX6))
        /\ ProjectionUnchanged
        /\ UNCHANGED <<assets, consumer, job, last>>

OnStopsUpdated ==
    \E id \in Live, slX6 \in SlPrices, tpX6 \in TpPrices :
        /\ Len(task) < MaxOverlap
        /\ chain[id] # NoTrade
        /\ chain[id].state = 1
        /\ chain' = [chain EXCEPT ![id].slX6 = slX6, ![id].tpX6 = tpX6,
                                  ![id].stopsUpdated = TRUE]
        /\ Listener(StopsUpdatedEv(id, slX6, tpX6))
        /\ ProjectionUnchanged
        /\ UNCHANGED <<assets, consumer, job, last>>

\* the next request of one of the handlers in flight is served
Proceed ==
    \E i \in 1..Len(task) :
        LET run == task[i]
        IN  /\ SetDB(ApplyCall(DB, Head(run.calls)))
            /\ IF Len(run.calls) = 1
               THEN /\ task' = SubSeq(task, 1, i - 1) \o SubSeq(task, i + 1, Len(task))
                    /\ last' = [op |-> run.kind, id |-> run.id, out |-> ZeroOut,
                                pre |-> run.pre.positions[run.id].state]
               ELSE /\ task' = [task EXCEPT ![i].calls = Tail(@)]
                    /\ last' = last
            /\ UNCHANGED <<assets, consumer, job, chain>>

NextOverlap ==
    \/ ChainOpen
    \/ DeliverOpened
    \/ OnExecuted
    \/ OnStopsUpdated
    \/ Proceed

SpecOverlap == Init /\ [][NextOverlap]_vars

(***************************************************************************)
(* The consumer processes and their watchdog.  Time is counted in seconds. *)
(* opened.js keeps lastEventTime, reset by its listener, and a 5 s         *)
(* interval that exits with status 1 when the last event is more than 15 s *)
(* old; it also exits when the raw socket closes, if the provider exposes  *)
(* one.  executed.js, stopsUpdated.js and removed.js only register their   *)
(* listener.  pm2 restarts a process that has exited.                      *)
(***************************************************************************)
WATCHDOG_TIMEOUT == 15
WatchdogInterval == 5
MaxIdle == 22

Consumers == {"Opened", "Executed", "StopsUpdated", "Removed"}

\* startWatchdog() is called by the Opened consumer only
HasWatchdog(kind) == kind = "Opened"

\* one second passes; the interval callback runs every WatchdogInterval
Tick ==
    LET idle  == consumer.idle + 1
        phase == (consumer.phase + 1) % WatchdogInterval
        exits == /\ HasWatchdog(consumer.kind)
                 /\ phase = 0
                 /\ idle > WATCHDOG_TIMEOUT
    IN  /\ consumer.alive
        /\ consumer.idle < MaxIdle
        /\ consumer' = [consumer EXCEPT !.idle = idle, !.phase = phase,
                                        !.alive = ~exits,
                                        !.code = IF exits THEN 1 ELSE @]
        /\ ProjectionUnchanged
        /\ UNCHANGED <<assets, job, chain, task, last>>

\* the listener of the consumer is called with an event of its topic
Receive ==
    \E ev \in Emitted :
        /\ ev.kind = consumer.kind
        /\ consumer.alive
        /\ consumer.ws = "open"
        /\ task = << >>
        /\ consumer' = [consumer EXCEPT !.idle = 0]
        /\ SetDB(Handle(assets, DB, ev))
        /\ last' = Last(ev.kind, ev, ZeroOut)
        /\ UNCHANGED <<assets, job, chain, task>>

\* the websocket closes: the Opened consumer exits if provider._websocket
\* exists (it does not in every ethers build), the others have no handler
WsClose ==
    \E handled \in BOOLEAN :
        /\ consumer.alive
        /\ consumer.ws = "open"
        /\ handled => HasWatchdog(consumer.kind)
        /\ consumer' = [consumer EXCEPT !.ws = "closed",
                                        !.alive = ~handled,
                                        !.code = IF handled THEN 1 ELSE @]
        /\ ProjectionUnchanged
        /\ UNCHANGED <<assets, job, chain, task, last>>

\* pm2 (autorestart) starts the process again
Restart ==
    /\ ~consumer.alive
    /\ consumer' = Started(consumer.kind)
    /\ ProjectionUnchanged
    /\ UNCHANGED <<assets, job, chain, task, last>>

InitWatchdog ==
    /\ assets = AssetRows
    /\ consumer \in {Started(kind) : kind \in Consumers}
    /\ job = NoJob
    /\ chain = [id \in Ids |-> IF id = Old THEN Trade(OldOpened) ELSE NoTrade]
    /\ positions = InitDB.positions
    /\ order_buckets = InitDB.order_buckets
    /\ stop_buckets = InitDB.stop_buckets
    /\ exposure_agg = InitDB.exposure_agg
    /\ task = << >>
    /\ last = Last("Init", Event("Init", 0), ZeroOut)

NextWatchdog ==
    \/ ChainOpen
    \/ ChainExecute
    \/ ChainUpdateStops
    \/ ChainRemove
    \/ Receive
    \/ Tick
    \/ WsClose
    \/ Restart

SpecWatchdog == InitWatchdog /\ [][NextWatchdog]_vars

(***************************************************************************)
(* The read API, GET /trader/:addr of endpoint.js: the ids of the rows of  *)
(* a trader in four groups.  Every trade of the model is of one trader.    *)
(***************************************************************************)
traderGroups(db) ==
    LET rows      == {id \in Ids : db.positions[id] # NoRow}
        closedAll == {id \in rows : db.positions[id].state = 2}
    IN  [orders    |-> {id \in rows : db.positions[id].state = 0},
         open      |-> {id \in rows : db.positions[id].state = 1},
         cancelled |-> {id \in closedAll : db.positions[id].close_reason = 0},
         closed    |-> {id \in closedAll : /\ db.positions[id].close_reason # NULL
                                           /\ db.positions[id].close_reason # 0}]

(***************************************************************************)
(* The state-only reconciler beside an Opened consumer whose requests can  *)
(* fail.  tick_size_usd6 is a column of the assets table, which every      *)
(* process reads once through getAsset and then keeps in its cache: after  *)
(* the row is edited, a process started later computes its bucket ids with *)
(* the new tick while rows written before stay in their old buckets.       *)
(***************************************************************************)
Ticks == {10, 20}

Retick ==
    \E t \in Ticks :
        /\ task = << >>
        /\ \E a \in AssetIds : assets[a].tick_size_usd6 # t
        /\ assets' = [a \in AssetIds |-> [assets[a] EXCEPT !.tick_size_usd6 = t]]
        /\ UNCHANGED <<consumer, job, chain, positions, order_buckets, stop_buckets,
                       exposure_agg, task, last>>

NextRepair ==
    \/ ChainOpen
    \/ Retick
    \/ Begin
    \/ Step
    \/ Fail
    \/ StateOnly

SpecRepair == Init /\ [][NextRepair]_vars

(***************************************************************************)
(* The full reconciler on trades whose stops move from one non-zero price  *)
(* to another: StopsUpdated carries the new prices, the stop types stay    *)
(* the same.                                                               *)
(***************************************************************************)
MovedStops == {<<45, 35>>, <<45, 0>>}

ChainMoveStops ==
    \E id \in Live, st \in MovedStops :
        /\ task = << >>
        /\ chain[id] # NoTrade
        /\ chain[id].state = 1
        /\ chain' = [chain EXCEPT ![id].slX6 = st[1], ![id].tpX6 = st[2],
                                  ![id].stopsUpdated = TRUE]
        /\ ProjectionUnchanged
        /\ UNCHANGED <<assets, consumer, job, task, last>>

NextMove ==
    \/ ChainOpen
    \/ ChainExecute
    \/ ChainMoveStops
    \/ DeliverOpened
    \/ DeliverExecuted
    \/ DeliverStopsUpdated
    \/ Full

SpecMove == Init /\ [][NextMove]_vars

(***************************************************************************)
(* The reconcilers and the backfill reading a trade with getTrade.  The    *)
(* struct carries flags (uint8), whose bit 0 is the side; the other bits   *)
(* are whatever the contract keeps there.  The full reconciler and the     *)
(* backfill decode flags; src/manual.js, the older reconciler, leaves      *)
(* flags out of the trade it normalizes and writes through the SQL         *)
(* functions ingest_opened and ingest_removed of the database.             *)
(***************************************************************************)
HighFlags == {0, 1}

\* flags of the struct getTrade returns for trade t
tradeFlags(t, hi) == 2 * hi + (IF t.longSide THEN 1 ELSE 0)

flagsToLong(flags) == flags % 2 = 1

\* the chain record reconcileId and hydrateIfMissing build from the struct
chainOf(t, flags) ==
    IF t = NoTrade THEN NoTrade ELSE [t EXCEPT !.longSide = flagsToLong(flags)]

\* _long_side of every ingest_opened call of manual.js
manualLongSide(lots) == IF lots # 0 /\ lots > 0 THEN TRUE ELSE TRUE

manualOpened(id, state, t, px) ==
    OpenedEv(id, state, t.asset, manualLongSide(t.lots), t.lots, px,
             t.slX6, t.tpX6, t.liqX6, t.leverageX)

\* the SQL functions: the Opened and Removed transitions of the projection
ingest_opened(as, db, p) == upsertOpenedEvent(as, db, p)

ingest_removed(db, id) == handleRemovedEvent(db, RemovedEv(id, 1, 0, 0))

ZeroManual == [created |-> 0, fixedState |-> 0, fixedIdx |-> 0, closed |-> 0, skipped |-> 0]

\* reconcileId of manual.js; the API serves the positions row, so the stops
\* it compares with the row are the row's own
reconcileIdManual(as, db, id, chainState, t) ==
    LET row == db.positions[id]
    IN  IF row # NoRow
        THEN IF row.state = chainState THEN Res(db, ZeroManual)
             ELSE IF chainState = 0
                  THEN Res(ingest_opened(as, db, manualOpened(id, 0, t, t.targetX6)),
                           [ZeroManual EXCEPT !.fixedState = 1])
             ELSE IF chainState = 1
                  THEN Res(ingest_opened(as, db, manualOpened(id, 1, t, t.entryX6)),
                           [ZeroManual EXCEPT !.fixedState = 1])
             ELSE Res(ingest_removed(db, id),
                      [ZeroManual EXCEPT !.closed = 1, !.fixedState = 1])
        ELSE IF t.entryX6 # 0
             THEN Res(ingest_opened(as, db, manualOpened(id, 1, t, t.entryX6)),
                      [ZeroManual EXCEPT !.created = 1])
        ELSE Res(ingest_opened(as, db, manualOpened(id, 0, t, t.targetX6)),
                 [ZeroManual EXCEPT !.created = 1])

IngestFull ==
    \E id \in Live, hi \in HighFlags :
        LET t == chainOf(chain[id], tradeFlags(chain[id], hi))
            r == reconcileId(assets, DB, id, stateOf(id), t)
        IN  /\ task = << >>
            /\ chain[id] # NoTrade
            /\ SetDB(r.db)
            /\ last' = Last("IngestFull", Event("IngestFull", id), r.out)
            /\ UNCHANGED <<assets, consumer, job, chain, task>>

IngestBackfill ==
    \E id \in Live, hi \in HighFlags :
        LET t == chainOf(chain[id], tradeFlags(chain[id], hi))
            r == hydrateIfMissing(assets, DB, id, stateOf(id), t)
        IN  /\ task = << >>
            /\ chain[id] # NoTrade
            /\ SetDB(r.db)
            /\ last' = Last("IngestBackfill", Event("IngestBackfill", id), r.out)
            /\ UNCHANGED <<assets, consumer, job, chain, task>>

\* the ids of a manual.js run are ids the contract has assigned
IngestManual ==
    \E id \in Live :
        LET r == reconcileIdManual(assets, DB, id, stateOf(id), chain[id])
        IN  /\ task = << >>
            /\ chain[id] # NoTrade
            /\ SetDB(r.db)
            /\ last' = Last("IngestManual", Event("IngestManual", id), r.out)
            /\ UNCHANGED <<assets, consumer, job, chain, task>>

NextIngest ==
    \/ ChainOpen
    \/ ChainExecute
    \/ ChainRemove
    \/ DeliverOpened
    \/ IngestFull
    \/ IngestBackfill
    \/ IngestManual

SpecIngest == Init /\ [][NextIngest]_vars

(***************************************************************************)
(* The batch jobs on their own: while job changes, the projection, the     *)
(* chain and the consumer stay as they are.                                *)
(***************************************************************************)
AtRest ==
    /\ assets = AssetRows
    /\ consumer = Started("Opened")
    /\ chain = [id \in Ids |-> IF id = Old THEN Trade(OldOpened) ELSE NoTrade]
    /\ positions = InitDB.positions
    /\ order_buckets = InitDB.order_buckets
    /\ stop_buckets = InitDB.stop_buckets
    /\ exposure_agg = InitDB.exposure_agg
    /\ task = << >>
    /\ last = Last("Init", Event("Init", 0), ZeroOut)

OnlyJob ==
    UNCHANGED <<assets, consumer, chain, positions, order_buckets, stop_buckets,
                exposure_agg, task, last>>

Range(s) == {s[i] : i \in 1..Len(s)}

(***************************************************************************)
(* backfill_missing_auto, the controller of the backfill: it reads         *)
(* nextId() - 1, then the highest id of positions, then every id of        *)
(* positions, lists the ids to hydrate and hands them to manual_backfill   *)
(* in chunks.  The consumers may insert rows between its two reads.        *)
(***************************************************************************)
MaxId == 4
CHUNK == 2

\* the loop of computeMissingIds from i to maxId
RECURSIVE missingFrom(_, _, _)
missingFrom(i, maxId, seen) ==
    IF i > maxId THEN << >>
    ELSE (IF i \in seen THEN << >> ELSE << i >>) \o missingFrom(i + 1, maxId, seen)

computeMissingList(seen, maxId, skipZero) ==
    LET start == IF skipZero THEN 1 ELSE 0
    IN  IF maxId < start THEN << >> ELSE missingFrom(start, maxId, seen)

\* Array.from(new Set(arr)): the first occurrence of each element, in order
RECURSIVE setOrder(_)
setOrder(arr) ==
    IF arr = << >> THEN << >>
    ELSE LET front == setOrder(SubSeq(arr, 1, Len(arr) - 1))
             x     == arr[Len(arr)]
         IN  IF x \in Range(front) THEN front ELSE Append(front, x)

\* arr.sort((a, b) => a - b)
RECURSIVE sortNumeric(_)
sortNumeric(arr) ==
    IF arr = << >> THEN << >>
    ELSE LET m == CHOOSE i \in 1..Len(arr) : \A j \in 1..Len(arr) : arr[i] <= arr[j]
         IN  << arr[m] >> \o sortNumeric(SubSeq(arr, 1, m - 1) \o SubSeq(arr, m + 1, Len(arr)))

\* Array.from({length: n}, (_, i) => from + i)
RECURSIVE rangeList(_, _)
rangeList(from, to) == IF from > to THEN << >> ELSE << from >> \o rangeList(from + 1, to)

\* the list with the tail starting at dbMax + 1 even when that is 0
idsToBackfillList_TailFromDbMax(seen, dbMax, cMax) ==
    LET missingUpToDb == computeMissingList(seen, dbMax, TRUE)
    IN  IF dbMax = cMax THEN missingUpToDb
        ELSE sortNumeric(setOrder(missingUpToDb \o rangeList(dbMax + 1, cMax)))

idsToBackfillList(seen, dbMax, cMax) ==
    LET missingUpToDb == computeMissingList(seen, dbMax, TRUE)
        tailStart     == IF dbMax + 1 > 1 THEN dbMax + 1 ELSE 1
    IN  IF dbMax = cMax THEN missingUpToDb
        ELSE sortNumeric(setOrder(missingUpToDb \o rangeList(tailStart, cMax)))

RECURSIVE chunkIds(_, _)
chunkIds(arr, size) ==
    IF arr = << >> THEN << >>
    ELSE IF Len(arr) <= size THEN << arr >>
    ELSE << SubSeq(arr, 1, size) >> \o chunkIds(SubSeq(arr, size + 1, Len(arr)), size)

\* the job after nextId(): seen is the set of ids of positions
AutoStart(seen, cMax) ==
    [kind |-> "backfill_auto", pc |-> "dbMax", seen |-> seen, chainMax |-> cMax,
     dbMax |-> NULL, chunks |-> << >>, sent |-> << >>]

ReadDbMax ==
    /\ job.kind = "backfill_auto" /\ job.pc = "dbMax"
    /\ job' = [job EXCEPT !.pc = "ids",
                          !.dbMax = IF job.seen = {} THEN -1 ELSE MaxOf(job.seen)]
    /\ OnlyJob

\* a consumer creates a row while the controller is between its reads
InsertRow ==
    \E id \in 0..MaxId :
        /\ job.kind = "backfill_auto" /\ job.pc = "ids"
        /\ id \notin job.seen
        /\ job' = [job EXCEPT !.seen = @ \cup {id}]
        /\ OnlyJob

ReadAllDbIds ==
    /\ job.kind = "backfill_auto" /\ job.pc = "ids"
    /\ LET ids == idsToBackfillList(job.seen, job.dbMax, job.chainMax)
       IN  job' = [job EXCEPT !.pc = IF ids = << >> THEN "done" ELSE "chunks",
                              !.chunks = chunkIds(ids, CHUNK)]
    /\ OnlyJob

callManualBackfill ==
    /\ job.kind = "backfill_auto" /\ job.pc = "chunks"
    /\ job' = [job EXCEPT !.sent = @ \o Head(job.chunks),
                          !.chunks = Tail(@),
                          !.pc = IF Len(job.chunks) = 1 THEN "done" ELSE "chunks"]
    /\ OnlyJob

InitAuto ==
    /\ AtRest
    /\ job \in {AutoStart(seen, cMax) : seen \in SUBSET (0..MaxId), cMax \in (-1)..MaxId}

NextAuto ==
    \/ ReadDbMax
    \/ InsertRow
    \/ ReadAllDbIds
    \/ callManualBackfill

SpecAuto == InitAuto /\ [][NextAuto]_vars

(***************************************************************************)
(* runManualState: W workers take the ids from one index and run           *)
(* reconcileStateOnly on each; every chain read goes through withRpc and   *)
(* every store call through withDb, each a Semaphore.  A worker is at      *)
(* "take" (top of its loop), "acquire", "queued" (its resolver is in the   *)
(* queue or has been called), "granted" (acquire returned on the fast      *)
(* path), "inside" (fn is running), "done" or "rejected".                  *)
(***************************************************************************)
MaxConc == 2
MaxJobLen == 2

\* the calls of reconcileStateOnly for one id: stateOf, readDbRow and, for a
\* row that exists, readBucketsByPosition and the handlers of the repair
Plans == {<<"rpc", "db">>, <<"rpc", "db", "db">>, <<"rpc", "db", "db", "db">>}

Semaphore(max) == [max |-> IF max < 1 THEN 1 ELSE max, cur |-> 0, q |-> << >>]

acquire(sem, w) ==
    IF sem.cur < sem.max THEN [sem EXCEPT !.cur = @ + 1]
    ELSE [sem EXCEPT !.q = Append(@, w)]

\* _next: the first queued resolver takes the permit
semNext(sem) ==
    IF sem.q # << >> /\ sem.cur < sem.max
    THEN [sem EXCEPT !.q = Tail(@), !.cur = @ + 1]
    ELSE sem

\* a release function that forgets it was called
release_NoFlag(sem, reld) == semNext([sem EXCEPT !.cur = @ - 1])

\* a release that does not wake the queue
release_NoNext(sem, reld) == IF reld THEN sem ELSE [sem EXCEPT !.cur = @ - 1]

\* the release function acquire returns; reld is its flag
release(sem, reld) == IF reld THEN sem ELSE semNext([sem EXCEPT !.cur = @ - 1])

Worker == [pc |-> "take", plan |-> << >>, step |-> 0, rel |-> 0]

runManualState(ids, dbConcurrency, rpcConcurrency, workers) ==
    LET n == IF Len(ids) = 0 THEN 1 ELSE Len(ids)
        k == IF workers = NULL THEN dbConcurrency ELSE workers
        W == IF n < k THEN n ELSE k
    IN  [kind |-> "manual_state", pc |-> "running", ids |-> ids, idx |-> 0,
         handed |-> << >>, scanned |-> 0, rpcFailed |-> 0, thrown |-> 0,
         conc |-> [rpc |-> rpcConcurrency, db |-> dbConcurrency],
         sem |-> [rpc |-> Semaphore(rpcConcurrency), db |-> Semaphore(dbConcurrency)],
         w |-> [i \in 1..W |-> Worker]]

Running == job.kind = "manual_state"
Workers == DOMAIN job.w
Inside(k) == {w \in Workers : job.w[w].pc = "inside" /\ Head(job.w[w].plan) = k}

\* const i = idx++; the worker returns past the end of ids
Take(w) ==
    /\ Running /\ job.w[w].pc = "take"
    /\ IF job.idx >= Len(job.ids)
       THEN job' = [job EXCEPT !.idx = @ + 1, !.w[w].pc = "done"]
       ELSE \E plan \in Plans :
               job' = [job EXCEPT !.idx = @ + 1,
                                  !.handed = Append(@, job.ids[job.idx + 1]),
                                  !.w[w] = [Worker EXCEPT !.pc = "acquire", !.plan = plan]]
    /\ OnlyJob

Acquire(w) ==
    /\ Running /\ job.w[w].pc = "acquire"
    /\ LET k   == Head(job.w[w].plan)
           sem == job.sem[k]
       IN  job' = [job EXCEPT !.sem[k] = acquire(sem, w),
                              !.w[w].pc = IF sem.cur < sem.max THEN "granted" ELSE "queued",
                              !.w[w].rel = 0]
    /\ OnlyJob

\* await acquire() resumes and fn is called
Enter(w) ==
    /\ Running
    /\ \/ job.w[w].pc = "granted"
       \/ job.w[w].pc = "queued" /\ w \notin Range(job.sem[Head(job.w[w].plan)].q)
    /\ job' = [job EXCEPT !.w[w].pc = "inside"]
    /\ OnlyJob

\* fn returns, finally calls the release function, the worker goes on
Return(w) ==
    /\ Running /\ job.w[w].pc = "inside"
    /\ LET k    == Head(job.w[w].plan)
           rest == Tail(job.w[w].plan)
       IN  job' = [job EXCEPT !.sem[k] = release(job.sem[k], FALSE),
                              !.w[w].rel = 1,
                              !.w[w].plan = rest,
                              !.w[w].step = @ + 1,
                              !.w[w].pc = IF rest = << >> THEN "take" ELSE "acquire",
                              !.scanned = IF rest = << >> THEN @ + 1 ELSE @]
    /\ OnlyJob

\* the release function of the permit just given back is called once more
ReleaseAgain(w) ==
    /\ Running /\ job.w[w].pc \in {"take", "acquire", "done"} /\ job.w[w].rel = 1
    /\ LET k == IF job.w[w].step = 1 THEN "rpc" ELSE "db"
       IN  job' = [job EXCEPT !.sem[k] = release(job.sem[k], TRUE), !.w[w].rel = 2]
    /\ OnlyJob

\* Promise.all resolves when every worker has returned
Finish ==
    /\ Running /\ job.pc = "running"
    /\ \A w \in Workers : job.w[w].pc = "done"
    /\ job' = [job EXCEPT !.pc = "returned"]
    /\ OnlyJob

InitSem ==
    /\ AtRest
    /\ job \in {runManualState(rangeList(1, n), d, r, k) :
                   n \in 0..MaxJobLen, d \in 1..MaxConc, r \in 1..MaxConc,
                   k \in {NULL} \cup (1..MaxConc)}

NextSem ==
    \/ \E w \in Workers : Take(w)
    \/ \E w \in Workers : Acquire(w)
    \/ \E w \in Workers : Enter(w)
    \/ \E w \in Workers : Return(w)
    \/ \E w \in Workers : ReleaseAgain(w)
    \/ Finish

SpecSem == InitSem /\ [][NextSem]_vars

\* the run as the code makes it: each release function is called once, and
\* every call that is pending returns
NextRun ==
    \/ \E w \in Workers : Take(w)
    \/ \E w \in Workers : Acquire(w)
    \/ \E w \in Workers : Enter(w)
    \/ \E w \in Workers : Return(w)
    \/ Finish

SpecRun == InitSem /\ [][NextRun]_vars /\ WF_vars(NextRun)

(***************************************************************************)
(* The state-only run with calls that fail.  reconcileStateOnly catches    *)
(* the failure of stateOf (call 1) and of a handler or patch (call 4 and   *)
(* later) and returns rpcFailed = 1; readDbRow and readBucketsByPosition   *)
(* (calls 2 and 3) are awaited outside any try, and workerMain has none.   *)
(***************************************************************************)
Caught(call) == call = 1 \/ call >= 4

\* fn throws: finally releases the permit, then the error is caught by
\* reconcileStateOnly or rejects the worker's promise
CallThrows(w) ==
    /\ Running /\ job.w[w].pc = "inside"
    /\ LET k    == Head(job.w[w].plan)
           call == job.w[w].step + 1
       IN  job' = [job EXCEPT !.sem[k] = release(job.sem[k], FALSE),
                              !.w[w].rel = 1,
                              !.w[w].plan = << >>,
                              !.w[w].step = call,
                              !.w[w].pc = IF Caught(call) THEN "take" ELSE "rejected",
                              !.thrown = @ + 1,
                              !.rpcFailed = IF Caught(call) THEN @ + 1 ELSE @,
                              !.scanned = IF Caught(call) THEN @ + 1 ELSE @]
    /\ OnlyJob

\* Promise.all rejects with the first worker that rejects; the other
\* workers go on
Reject ==
    /\ Running /\ job.pc = "running"
    /\ \E w \in Workers : job.w[w].pc = "rejected"
    /\ job' = [job EXCEPT !.pc = "threw"]
    /\ OnlyJob

NextFail ==
    \/ \E w \in Workers : Take(w)
    \/ \E w \in Workers : Acquire(w)
    \/ \E w \in Workers : Enter(w)
    \/ \E w \in Workers : Return(w)
    \/ \E w \in Workers : CallThrows(w)
    \/ Finish
    \/ Reject

SpecFail == InitSem /\ [][NextFail]_vars

(***************************************************************************)
(* runWithConcurrency of the manual verify job (src/manual.js) and of the  *)
(* index repair job: a pool that starts at most max tasks at a time.  A    *)
(* task is given by the outcome its promise settles with.                  *)
(***************************************************************************)
MaxTasks == 3
MaxPar == 2

Outcomes == {[ok |-> TRUE, x |-> 1], [ok |-> TRUE, x |-> 2], [ok |-> FALSE, x |-> 1]}
Hole == [ok |-> FALSE, x |-> NULL]

TaskLists ==
    UNION {[1..n -> Outcomes] : n \in 0..MaxTasks}

\* const res = new Array(tasks.length); let i = 0, running = 0
runWithConcurrency(tasks, max) ==
    [kind |-> "pool", pc |-> "new", tasks |-> tasks, max |-> max,
     i |-> 0, running |-> 0, resolved |-> 0,
     res |-> [k \in 1..Len(tasks) |-> Hole],
     st |-> [k \in 1..Len(tasks) |-> "idle"]]

Pooling == job.kind = "pool"

\* while (running < max && i < tasks.length) { const idx = i++; running++; tasks[idx]() ... }
launch(j) ==
    LET room == IF j.max > j.running THEN j.max - j.running ELSE 0
        left == Len(j.tasks) - j.i
        k    == IF room < left THEN room ELSE left
    IN  [j EXCEPT !.i = j.i + k,
                  !.running = j.running + k,
                  !.st = [t \in 1..Len(j.tasks) |->
                             IF t > j.i /\ t <= j.i + k THEN "started" ELSE j.st[t]]]

\* the executor of the promise calls launch()
Executor ==
    /\ Pooling /\ job.pc = "new"
    /\ job' = [launch(job) EXCEPT !.pc = "running"]
    /\ OnlyJob

\* the promise of task idx settles: .then or .catch stores its outcome
Settle(idx) ==
    /\ Pooling /\ job.st[idx] = "started"
    /\ job' = [job EXCEPT !.res[idx] = job.tasks[idx], !.st[idx] = "stored"]
    /\ OnlyJob

\* the .finally of task idx
finally(j) ==
    LET d == [j EXCEPT !.running = j.running - 1]
    IN  IF d.i < Len(d.tasks) THEN launch(d)
        ELSE IF d.running = 0 THEN [d EXCEPT !.resolved = d.resolved + 1]
        ELSE d

Finally(idx) ==
    /\ Pooling /\ job.st[idx] = "stored"
    /\ job' = [finally(job) EXCEPT !.st[idx] = "done"]
    /\ OnlyJob

\* the callers pass Math.min(MAX, tasks.length), which is 0 for the empty list
InitPool ==
    /\ AtRest
    /\ job \in {runWithConcurrency(tasks, max) :
                   tasks \in TaskLists, max \in 0..MaxPar}
    /\ job.max = 0 => job.tasks = << >>

NextPool ==
    \/ Executor
    \/ \E idx \in 1..MaxTasks : idx <= Len(job.tasks) /\ Settle(idx)
    \/ \E idx \in 1..MaxTasks : idx <= Len(job.tasks) /\ Finally(idx)

\* every promise of a task settles and every callback that is due runs
SpecPool == InitPool /\ [][NextPool]_vars /\ WF_vars(NextPool)

(***************************************************************************)
(* Properties.                                                             *)
(***************************************************************************)
Terminal == {CLOSED, CANCELLED}
EventKinds == {"Opened", "Executed", "StopsUpdated", "Removed"}
HasRow(id) == positions[id] # NoRow
Orders(id) == OrdersOf(DB, id)
Stops(id) == StopsOf(DB, id)
StopPrice(row, type) ==
    CASE type = 1 -> row.sl_x6 [] type = 2 -> row.tp_x6 [] type = 3 -> row.liq_x6

\* the stop_buckets rows of the id are one per non-zero stop of its row, on
\* the antagonistic side
StopsMatchRow(id) ==
    /\ \A t \in AllStopTypes :
          Cardinality({r \in Stops(id) : r.stop_type = t})
              = IF StopPrice(positions[id], t) # 0 THEN 1 ELSE 0
    /\ \A r \in Stops(id) : r.side = ~positions[id].long_side

\* a projection step for the id: the handler of an event of one of the kinds ran
EventStep(id, kinds) ==
    /\ chain' = chain
    /\ last'.op \in kinds
    /\ last'.id = id

\* C1: every positions row has the index rows of its state: ORDER iff exactly
\* one order_buckets row; OPEN implies no order_buckets row and one stop_buckets
\* row per non-zero stop with side = NOT long_side; CLOSED or CANCELLED implies
\* no row in either table.
C1_IndexMatchesState ==
    \A id \in Ids :
        HasRow(id) =>
            /\ (positions[id].state = ORDER) <=> (Cardinality(Orders(id)) = 1)
            /\ positions[id].state = OPEN => Orders(id) = {} /\ StopsMatchRow(id)
            /\ positions[id].state \in Terminal => Orders(id) = {} /\ Stops(id) = {}

AllowedEdges == {<<ORDER, OPEN>>, <<ORDER, CLOSED>>, <<ORDER, CANCELLED>>,
                 <<OPEN, CLOSED>>, <<OPEN, CANCELLED>>}

\* C2: no step changes the stored state of a position along an edge other than
\* ORDER->OPEN, ORDER->CLOSED/CANCELLED, OPEN->CLOSED/CANCELLED.
C2_OnlyAllowedEdges ==
    [][\A id \in Ids :
          HasRow(id) =>
              \/ positions'[id].state = positions[id].state
              \/ <<positions[id].state, positions'[id].state>> \in AllowedEdges]_vars

\* C3: an event applied to a CLOSED or CANCELLED position leaves its row
\* unchanged and leaves the id without order_buckets and stop_buckets rows.
C3_TerminalIsFrozen ==
    [][\A id \in Ids :
          (HasRow(id) /\ positions[id].state \in Terminal /\ EventStep(id, EventKinds)) =>
              /\ positions'[id] = positions[id]
              /\ {r \in order_buckets' : r.position_id = id} = {}
              /\ {r \in stop_buckets' : r.position_id = id} = {}]_vars

\* the row of the id was inserted from its Opened(ORDER) event and a later
\* event has been applied to it
OrderOpenedThenChanged(id) ==
    /\ HasRow(id)
    /\ chain[id].opened.state = ORDER
    /\ positions[id].target_x6 = chain[id].opened.px
    /\ positions[id].state # ORDER

\* C4: re-delivering Opened after later events of the id have been applied
\* leaves the positions row and both bucket tables as they were.
C4_RedeliveredOpenedIsNoOp ==
    [][\A id \in Ids :
          (OrderOpenedThenChanged(id) /\ EventStep(id, {"Opened"})) =>
              UNCHANGED <<positions, order_buckets, stop_buckets>>]_vars

Tables(db) == <<db.positions, db.order_buckets, db.stop_buckets>>

\* C5: applying an event twice in succession gives the positions rows and the
\* bucket rows that applying it once gives, for every event kind and from every
\* reachable projection.
C5_TwiceIsOnce ==
    \A ev \in Emitted :
        Tables(Handle(assets, Handle(assets, DB, ev), ev)) = Tables(Handle(assets, DB, ev))

\* an Executed event has just moved an ORDER with stops to OPEN; its stop rows
\* are indexed and the event may be delivered again
C5_Witness ==
    \E ev \in Emitted :
        /\ ev.kind = "Executed"
        /\ last.op = "Executed" /\ last.id = ev.id
        /\ positions[ev.id].state = OPEN
        /\ Cardinality(Stops(ev.id)) = 3
        /\ Handle(assets, DB, ev) = DB

\* C6: for one id, Opened, Executed, Removed and Opened, Removed, Executed end
\* in the same projection: state terminal, no bucket rows for the id.
C6_ExecutedRemovedCommute ==
    \A id \in Live :
        (HasExecuted(id) /\ HasRemoved(id) /\ ~HasRow(id)
            /\ Orders(id) = {} /\ Stops(id) = {}) =>
            LET o  == chain[id].opened
                a1 == Handle(assets, DB, o)
                a  == Handle(assets, Handle(assets, a1, ExecutedOf(id)), RemovedOf(id))
                b  == Handle(assets, Handle(assets, a1, RemovedOf(id)), ExecutedOf(id))
            IN  /\ Tables(a) = Tables(b)
                /\ b.positions[id].state \in Terminal
                /\ OrdersOf(b, id) = {} /\ StopsOf(b, id) = {}

RECURSIVE SumOver(_, _)
SumOver(f, S) ==
    IF S = {} THEN 0
    ELSE LET x == CHOOSE y \in S : TRUE IN f[x] + SumOver(f, S \ {x})

\* the aggregate of the OPEN rows of one asset and side, recomputed from positions
Recomputed(k) ==
    LET S == {id \in Ids : /\ HasRow(id)
                           /\ positions[id].state = OPEN
                           /\ positions[id].asset_id = k[1]
                           /\ positions[id].long_side = k[2]}
        P == positions
    IN  [sum_lots          |-> SumOver([id \in S |-> P[id].lots], S),
         sum_entry_x6_lots |-> SumOver([id \in S |-> P[id].entry_x6 * P[id].lots], S),
         sum_leverage_lots |-> SumOver([id \in S |-> P[id].leverage_x * P[id].lots], S),
         sum_liq_x6_lots   |-> SumOver([id \in S |-> IF P[id].liq_x6 > 0
                                                     THEN P[id].liq_x6 * P[id].lots ELSE 0], S),
         sum_liq_lots      |-> SumOver([id \in S |-> IF P[id].liq_x6 > 0
                                                     THEN P[id].lots ELSE 0], S),
         positions_count   |-> Cardinality(S)]

\* C8: for every (asset_id, side), exposure_agg equals the aggregate recomputed
\* from the positions rows with state OPEN, that asset and long_side = side;
\* positions_count is the number of such rows.
C8_ExposureIsRecomputed ==
    \A k \in DOMAIN exposure_agg : exposure_agg[k] = Recomputed(k)

\* two OPEN rows on the same asset and side, the second just executed
C8_Witness ==
    /\ last.op = "Executed"
    /\ \A id \in Ids : HasRow(id) /\ positions[id].state = OPEN /\ positions[id].long_side
    /\ exposure_agg[<<0, TRUE>>].positions_count = 2
    /\ exposure_agg[<<0, TRUE>>].sum_lots = 3

C10_PricesByState ==
    \A id \in Ids :
        HasRow(id) =>
            /\ positions[id].state = ORDER =>
                  positions[id].target_x6 # 0 /\ positions[id].entry_x6 = 0
            /\ positions[id].state = OPEN =>
                  positions[id].entry_x6 # 0 /\ positions[id].target_x6 = 0

\* C10 as amended: every ORDER row has target_x6 non-zero and entry_x6 zero,
\* every OPEN row has entry_x6 non-zero; the target_x6 of an OPEN row is zero
\* when the row was inserted as OPEN and is the target of its order when the
\* row was inserted as ORDER and executed.
C10_PricesByStateKeepingTarget ==
    \A id \in Ids :
        HasRow(id) =>
            /\ positions[id].state = ORDER =>
                  positions[id].target_x6 # 0 /\ positions[id].entry_x6 = 0
            /\ positions[id].state = OPEN =>
                  /\ positions[id].entry_x6 # 0
                  /\ \/ positions[id].target_x6 = 0
                     \/ /\ chain[id].opened.state = ORDER
                        /\ positions[id].target_x6 = chain[id].opened.px

\* an ORDER has just been executed: the row is OPEN and keeps its target
C10_Witness ==
    \E id \in Live :
        /\ last.op = "Executed" /\ last.id = id
        /\ positions[id].state = OPEN
        /\ positions[id].entry_x6 # 0
        /\ positions[id].target_x6 # 0


\* C7: a handler run is all-or-nothing: when one of its store calls fails, the
\* positions rows, both bucket tables and the exposure aggregates are what they
\* were before the run started.
C7_AllOrNothing ==
    [][(task # << >> /\ task' = << >> /\ last'.op = "Failed") =>
          <<positions', order_buckets', stop_buckets', exposure_agg'>>
              = <<Head(task).pre.positions, Head(task).pre.order_buckets,
                  Head(task).pre.stop_buckets, Head(task).pre.exposure_agg>>]_vars


\* the Removed reason of a cancelled order
REASON_CANCELLED == 0

\* C11: Removed(id, reason) on a row in state ORDER or OPEN stores state
\* CANCELLED iff reason = CANCELLED, state CLOSED for every other reason, and
\* close_reason = reason.
C11_RemovedStateByReason ==
    [][\A id \in Ids :
          (HasRow(id) /\ positions[id].state \in {ORDER, OPEN}
              /\ EventStep(id, {"Removed"})) =>
              /\ positions'[id].state
                    = IF chain[id].reason = REASON_CANCELLED THEN CANCELLED ELSE CLOSED
              /\ positions'[id].close_reason = chain[id].reason]_vars

\* C12: after Removed on a row in state ORDER or OPEN the id has no
\* order_buckets row and no stop_buckets row.
C12_RemovedClearsBuckets ==
    [][\A id \in Ids :
          (HasRow(id) /\ positions[id].state \in {ORDER, OPEN}
              /\ EventStep(id, {"Removed"})) =>
              /\ {r \in order_buckets' : r.position_id = id} = {}
              /\ {r \in stop_buckets' : r.position_id = id} = {}]_vars


\* the stop_buckets rows an id must hold for the given stops: one per non-zero
\* price among the given types, on the antagonistic side
WantedStops(id, asset, types, price, lots, longSide) ==
    {[asset_id |-> asset, bucket_id |-> price[t] \div assets[asset].tick_size_usd6,
      position_id |-> id, stop_type |-> t, lots |-> lots, side |-> ~longSide]
        : t \in {u \in types : price[u] # 0}}

EventStops(ev) == <<ev.slX6, ev.tpX6, ev.liqX6>>

\* C13: Opened for an id without positions row creates the row with the state
\* of the event; for ORDER it inserts exactly one order_buckets row (bucket =
\* target_x6 / tick, lots, side = long_side) and no stop_buckets row; for OPEN
\* no order_buckets row and one stop_buckets row per non-zero stop among SL,
\* TP, LIQ, with side = NOT long_side and the lots of the position.
C13_OpenedCreates ==
    [][\A id \in Ids :
          (~HasRow(id) /\ EventStep(id, {"Opened"})) =>
              LET ev == chain[id].opened
              IN  /\ HasRow(id)'
                  /\ positions'[id].state = ev.state
                  /\ ev.state = ORDER =>
                        /\ {r \in order_buckets' : r.position_id = id}
                              = {[asset_id |-> ev.asset,
                                  bucket_id |-> ev.px \div assets[ev.asset].tick_size_usd6,
                                  position_id |-> id, lots |-> ev.lots,
                                  side |-> ev.longSide]}
                        /\ {r \in stop_buckets' : r.position_id = id} = {}
                  /\ ev.state = OPEN =>
                        /\ {r \in order_buckets' : r.position_id = id} = {}
                        /\ {r \in stop_buckets' : r.position_id = id}
                              = WantedStops(id, ev.asset, AllStopTypes, EventStops(ev),
                                            ev.lots, ev.longSide)]_vars

\* Opened(OPEN) with the three stops set has just created the row of the id
C13_Witness ==
    \E id \in Live :
        /\ last.op = "Opened" /\ last.id = id /\ last.pre = NULL
        /\ positions[id].state = OPEN
        /\ Orders(id) = {}
        /\ Cardinality(Stops(id)) = 3


\* C14: Opened for an id that has a positions row is an upsert: afterwards the
\* state, entry_x6/target_x6, sl_x6, tp_x6, liq_x6 and lots of the row are
\* those of the event, and the bucket rows of the id are exactly those of the
\* state of the event: its order_buckets row iff ORDER, its stop_buckets rows
\* iff OPEN.
C14_OpenedUpserts ==
    [][\A id \in Ids :
          (HasRow(id) /\ EventStep(id, {"Opened"})) =>
              LET ev  == chain[id].opened
                  row == positions'[id]
              IN  /\ row.state = ev.state
                  /\ row.lots = ev.lots
                  /\ row.entry_x6 = (IF ev.state = OPEN THEN ev.px ELSE 0)
                  /\ row.target_x6 = (IF ev.state = ORDER THEN ev.px ELSE 0)
                  /\ <<row.sl_x6, row.tp_x6, row.liq_x6>> = EventStops(ev)
                  /\ {r \in order_buckets' : r.position_id = id}
                        = IF ev.state = ORDER
                          THEN {[asset_id |-> ev.asset,
                                 bucket_id |-> ev.px \div assets[ev.asset].tick_size_usd6,
                                 position_id |-> id, lots |-> ev.lots,
                                 side |-> ev.longSide]}
                          ELSE {}
                  /\ {r \in stop_buckets' : r.position_id = id}
                        = IF ev.state = OPEN
                          THEN WantedStops(id, ev.asset, AllStopTypes, EventStops(ev),
                                           ev.lots, ev.longSide)
                          ELSE {}]_vars


RowStops(row) == <<row.sl_x6, row.tp_x6, row.liq_x6>>

\* C15: Executed(id, entry_x6) on a row in state ORDER leaves it OPEN with that
\* entry_x6, notional and margin computed from that entry, no order_buckets
\* row for the id and exactly one stop_buckets row per non-zero stop stored on
\* the row, each with side = NOT long_side.
C15_ExecutedOpensOrder ==
    [][\A id \in Ids :
          (HasRow(id) /\ positions[id].state = ORDER /\ EventStep(id, {"Executed"})) =>
              LET row == positions'[id]
                  a   == assets[row.asset_id]
              IN  /\ row.state = OPEN
                  /\ row.entry_x6 = chain[id].entryX6
                  /\ row.notional_usd6
                        = (chain[id].entryX6 * row.lots * a.lot_num) \div a.lot_den
                  /\ row.margin_usd6 = row.notional_usd6 \div row.leverage_x
                  /\ RowStops(row) = RowStops(positions[id])
                  /\ {r \in order_buckets' : r.position_id = id} = {}
                  /\ {r \in stop_buckets' : r.position_id = id}
                        = WantedStops(id, row.asset_id, AllStopTypes, RowStops(row),
                                      row.lots, row.long_side)]_vars

\* an ORDER with its three stops set has just been executed at a price other
\* than its target
C15_Witness ==
    \E id \in Live :
        /\ last.op = "Executed" /\ last.id = id /\ last.pre = ORDER
        /\ positions[id].state = OPEN
        /\ positions[id].entry_x6 # positions[id].target_x6
        /\ Orders(id) = {}
        /\ Cardinality(Stops(id)) = 3


LIQ == 3

\* C16: StopsUpdated never inserts, modifies or deletes a stop_buckets row of
\* type LIQ and never changes positions.liq_x6, for every sl_x6 and tp_x6,
\* zero included.
C16_StopsUpdatedKeepsLiq ==
    [][\A id \in Ids :
          EventStep(id, {"StopsUpdated"}) =>
              /\ {r \in stop_buckets' : r.stop_type = LIQ}
                    = {r \in stop_buckets : r.stop_type = LIQ}
              /\ \A i \in Ids :
                    HasRow(i) => HasRow(i)' /\ positions'[i].liq_x6 = positions[i].liq_x6]_vars

\* StopsUpdated(0, 0) has just been applied to an OPEN row with a LIQ stop:
\* the LIQ row is the only stop row the id still holds
C16_Witness ==
    \E id \in Live :
        /\ last.op = "StopsUpdated" /\ last.id = id /\ last.pre = OPEN
        /\ positions[id].liq_x6 # 0
        /\ positions[id].sl_x6 = 0 /\ positions[id].tp_x6 = 0
        /\ chain[id].opened.slX6 # 0
        /\ Cardinality(Stops(id)) = 1
        /\ \A r \in Stops(id) : r.stop_type = LIQ

\* C17: after StopsUpdated(id, sl_x6, tp_x6) on an OPEN row, sl_x6 and tp_x6 of
\* the row are the event's and the SL and TP rows of the id are exactly one SL
\* row iff sl_x6 # 0 and one TP row iff tp_x6 # 0, each in bucket price / tick
\* with side = NOT long_side and the lots of the row; no row of the previous
\* prices remains.
C17_StopsUpdatedReplaces ==
    [][\A id \in Ids :
          (HasRow(id) /\ positions[id].state = OPEN /\ EventStep(id, {"StopsUpdated"})) =>
              LET row == positions'[id]
              IN  /\ row.sl_x6 = chain[id].slX6
                  /\ row.tp_x6 = chain[id].tpX6
                  /\ {r \in stop_buckets' : r.position_id = id /\ r.stop_type \in {1, 2}}
                        = WantedStops(id, row.asset_id, {1, 2},
                                      <<chain[id].slX6, chain[id].tpX6>>,
                                      row.lots, row.long_side)]_vars

\* a position opened with SL and TP has had its SL removed and its TP kept
C17_Witness ==
    \E id \in Live :
        /\ last.op = "StopsUpdated" /\ last.id = id /\ last.pre = OPEN
        /\ chain[id].opened.slX6 # 0
        /\ positions[id].sl_x6 = 0 /\ positions[id].tp_x6 # 0
        /\ {r.stop_type : r \in Stops(id)} \cap {1, 2} = {2}


\* the handler of an event of the kind for the id divides a price by the tick
ComputesBucket(id, kind) ==
    CASE kind = "Opened" ->
            chain[id].opened.state = ORDER \/ EventStops(chain[id].opened) # <<0, 0, 0>>
      [] kind = "Executed" -> HasRow(id) /\ RowStops(positions[id]) # <<0, 0, 0>>
      [] kind = "StopsUpdated" -> HasRow(id) /\ <<chain[id].slX6, chain[id].tpX6>> # <<0, 0>>

\* C18: with a tick of the asset that is zero or negative, Opened, Executed and
\* StopsUpdated, whenever they compute a bucket, fail and write nothing: the
\* positions rows and both bucket tables are as before the operation.
C18_BadTickWritesNothing ==
    [][\A id \in Ids : \A kind \in {"Opened", "Executed", "StopsUpdated"} :
          (/\ EventStep(id, {kind})
           /\ assets[chain[id].asset].tick_size_usd6 <= 0
           /\ ComputesBucket(id, kind)) =>
              UNCHANGED <<positions, order_buckets, stop_buckets>>]_vars


\* the greatest integer not above a / b, for a positive b
Floor(a, b) == a \div b

\* C19: every bucket_id in order_buckets and stop_buckets is the mathematical
\* floor of price_x6 / tick_x6 (rounding toward minus infinity) for the price
\* the row indexes and the tick of the asset, negative prices included.
C19_BucketIsFloor ==
    /\ \A r \in order_buckets :
          r.bucket_id = Floor(positions[r.position_id].target_x6,
                              assets[r.asset_id].tick_size_usd6)
    /\ \A r \in stop_buckets :
          r.bucket_id = Floor(StopPrice(positions[r.position_id], r.stop_type),
                              assets[r.asset_id].tick_size_usd6)


Corrections(out) == out.created + out.executed + out.stops + out.removed + out.statePatched

\* C20: with the chain fixed and every call succeeding, after one pass of the
\* full reconciler over all ids a second pass over the same ids makes no
\* correction: created, executed, stops, removed and statePatched are all 0,
\* whatever the projection the first pass started from.
C20_SecondPassIsQuiet ==
    LET first  == workerMain(DB, Ids)
        second == workerMain(first.db, Ids)
    IN  Corrections(second.out) = 0


\* C21: after a backfill pass over holes and tail, every id in 1..chainMax
\* whose on-chain trade has a non-zero owner has a positions row, whatever its
\* chain state; a second backfill with the chain unchanged finds none missing.
C21_BackfillLeavesNoGap ==
    [][EventStep(0, {"Backfill"}) =>
          /\ \A id \in 1..chainMax : chain[id] # NoTrade => positions'[id] # NoRow
          /\ {id \in idsToBackfill(DB') : chain[id] # NoTrade} = {}]_vars


\* the Removed reason of a market close
REASON_MARKET == 1

\* C22: state-only reconciliation of an id whose DB state is OPEN and whose
\* chain state is CLOSED or CANCELLED injects one Removed, with reason
\* CANCELLED when the chain state is 3 and MARKET otherwise; afterwards the
\* stored state is the chain state, the id has no order_buckets and no
\* stop_buckets row, and the summary has removed = 1 and every other counter 0.
C22_OpenToTerminal ==
    [][\A id \in Ids :
          (/\ HasRow(id) /\ positions[id].state = OPEN
           /\ stateOf(id) \in Terminal
           /\ EventStep(id, {"StateOnly"})) =>
              /\ positions'[id].state = stateOf(id)
              /\ positions'[id].close_reason
                    = IF stateOf(id) = CANCELLED THEN REASON_CANCELLED ELSE REASON_MARKET
              /\ {r \in order_buckets' : r.position_id = id} = {}
              /\ {r \in stop_buckets' : r.position_id = id} = {}
              /\ last'.out = [ZeroOut EXCEPT !.removed = 1]]_vars


\* C23: within one consumer the handlers run in topic order, one after the
\* other: once the handlers of the StopsUpdated events of an id have completed,
\* the sl_x6 and tp_x6 of its row and its SL and TP stop_buckets rows are those
\* of the later event only.  (A trade opened as OPEN has no other event.)
C23_LaterStopsUpdatedWins ==
    \A id \in Live :
        (/\ task = << >>
         /\ last.op = "StopsUpdated" /\ last.id = id
         /\ chain[id].opened.state = OPEN) =>
            /\ positions[id].sl_x6 = chain[id].slX6
            /\ positions[id].tp_x6 = chain[id].tpX6
            /\ {r \in Stops(id) : r.stop_type \in {1, 2}}
                  = WantedStops(id, positions[id].asset_id, {1, 2},
                                <<chain[id].slX6, chain[id].tpX6>>,
                                positions[id].lots, positions[id].long_side)


\* C24: two steps on the same id that run in different tasks and overlap in
\* time leave the rows that running them one after the other leaves: once
\* the handlers of the Executed and StopsUpdated events of an order have
\* completed, the stop_buckets rows of the id agree with the sl_x6, tp_x6 and
\* liq_x6 of its row.
C24_OverlapIsSerial ==
    \A id \in Live :
        (/\ task = << >>
         /\ last.op \in {"Executed", "StopsUpdated"} /\ last.id = id
         /\ chain[id].opened.state = ORDER
         /\ HasRow(id) /\ positions[id].state = OPEN) =>
            /\ positions[id].sl_x6 = chain[id].slX6
            /\ positions[id].tp_x6 = chain[id].tpX6
            /\ StopsMatchRow(id)


\* C25: each of the four consumers terminates with a non-success exit status
\* within a bounded delay (one run of the watchdog interval) once no event has
\* been delivered to it for more than 15 s, and also when its transport closes
\* (no event is delivered on a closed transport); an event resets the window.
C25_IdleConsumerExits ==
    /\ consumer.alive => consumer.idle <= WATCHDOG_TIMEOUT + WatchdogInterval
    /\ ~consumer.alive => consumer.code = 1


\* C26: after any sequence of events and reconciliations, every positions row
\* of a trader is listed in exactly one of the groups orders, open, cancelled,
\* closed that GET /trader/:addr returns; no row is missing from all groups.
C26_EveryRowInOneGroup ==
    LET groups == traderGroups(DB)
    IN  \A id \in Ids :
            HasRow(id) => Cardinality({g \in DOMAIN groups : id \in groups[g]}) = 1


\* C27: state-only reconciliation of an id whose DB state is ORDER (target_x6
\* non-zero) and whose chain state is OPEN replays Executed with the stored
\* entry_x6, or with target_x6 when entry_x6 is zero, then StopsUpdated iff the
\* stored sl_x6 or tp_x6 is non-zero; afterwards the row is OPEN, has no
\* order_buckets row and one stop_buckets row per non-zero stored stop with
\* side = NOT long_side, and the summary has executed = 1 and stops = 1 iff SL
\* or TP is non-zero.
C27_OrderToOpenReplays ==
    [][\A id \in Ids :
          (/\ HasRow(id) /\ positions[id].state = ORDER
           /\ positions[id].target_x6 # 0
           /\ stateOf(id) = OPEN
           /\ EventStep(id, {"StateOnly"})) =>
              LET old   == positions[id]
                  row   == positions'[id]
                  a     == assets[row.asset_id]
                  entry == IF old.entry_x6 # 0 THEN old.entry_x6 ELSE old.target_x6
              IN  /\ row.state = OPEN
                  /\ row.entry_x6 = entry
                  /\ row.notional_usd6 = (entry * row.lots * a.lot_num) \div a.lot_den
                  /\ RowStops(row) = RowStops(old)
                  /\ {r \in order_buckets' : r.position_id = id} = {}
                  /\ {r \in stop_buckets' : r.position_id = id}
                        = WantedStops(id, row.asset_id, AllStopTypes, RowStops(old),
                                      row.lots, row.long_side)
                  /\ last'.out
                        = [ZeroOut EXCEPT
                              !.executed = 1,
                              !.stops = IF old.sl_x6 # 0 \/ old.tp_x6 # 0 THEN 1 ELSE 0]]_vars

\* the reconciler has just moved an ORDER with its three stops to OPEN, at the
\* target of the order although the chain executed it at another price
C27_Witness ==
    \E id \in Live :
        /\ last.op = "StateOnly" /\ last.id = id /\ last.pre = ORDER
        /\ last.out.executed = 1 /\ last.out.stops = 1
        /\ positions[id].state = OPEN
        /\ positions[id].entry_x6 = positions[id].target_x6
        /\ chain[id].entryX6 # positions[id].entry_x6
        /\ Orders(id) = {}
        /\ Cardinality(Stops(id)) = 3


\* the summary of a second state-only reconciliation of the id
SecondStateOnly(id) == reconcileStateOnly(assets, DB, id, stateOf(id))

\* C28: when DB state and chain state are the same terminal state and the id
\* still has rows in order_buckets or stop_buckets, one state-only
\* reconciliation removes all of them: afterwards the id has no row in either
\* table and a second reconciliation of the id reports skipped = 1 and no repair.
C28_TerminalIndexCleaned ==
    [][\A id \in Ids :
          (/\ HasRow(id) /\ positions[id].state \in Terminal
           /\ positions[id].state = stateOf(id)
           /\ hasAnyIndex(Orders(id), Stops(id))
           /\ EventStep(id, {"StateOnly"})) =>
              /\ {r \in order_buckets' : r.position_id = id} = {}
              /\ {r \in stop_buckets' : r.position_id = id} = {}
              /\ SecondStateOnly(id)'.out = [ZeroOut EXCEPT !.skipped = 1]]_vars


\* C29: when DB state and chain state are both OPEN, one state-only
\* reconciliation leaves the id with no order_buckets row and with exactly one
\* stop_buckets row per non-zero stored stop among SL, TP and LIQ (side = NOT
\* long_side, lots of the position) and no row for a stop whose stored price
\* is zero; a second reconciliation of the id reports skipped = 1.
C29_OpenIndexRepaired ==
    [][\A id \in Ids :
          (/\ HasRow(id) /\ positions[id].state = OPEN
           /\ stateOf(id) = OPEN
           /\ EventStep(id, {"StateOnly"})) =>
              LET row == positions[id]
              IN  /\ {r \in order_buckets' : r.position_id = id} = {}
                  /\ {r \in stop_buckets' : r.position_id = id}
                        = WantedStops(id, row.asset_id, AllStopTypes, RowStops(row),
                                      row.lots, row.long_side)
                  /\ SecondStateOnly(id)'.out = [ZeroOut EXCEPT !.skipped = 1]]_vars



\* C30: when DB state and chain state are both ORDER and the id's
\* order_buckets rows are not exactly one row with the lots and side of the
\* position, one state-only reconciliation leaves exactly one order_buckets
\* row of the id, with those lots and that side, and a second reconciliation
\* of the id reports skipped = 1.
C30_OrderIndexRepaired ==
    [][\A id \in Ids :
          (/\ HasRow(id) /\ positions[id].state = ORDER
           /\ stateOf(id) = ORDER
           /\ ~orderIndexedEqual(Orders(id), positions[id].lots, positions[id].long_side)
           /\ EventStep(id, {"StateOnly"})) =>
              /\ orderIndexedEqual({r \in order_buckets' : r.position_id = id},
                                   positions[id].lots, positions[id].long_side)
              /\ SecondStateOnly(id)'.out = [ZeroOut EXCEPT !.skipped = 1]]_vars



\* the price getTrade returns for a stop type
ChainStop(t, type) == IF type = 1 THEN t.slX6 ELSE IF type = 2 THEN t.tpX6 ELSE t.liqX6

\* C31: after full reconciliation of an id that has a positions row and whose
\* chain state is OPEN, the row's entry_x6, sl_x6, tp_x6, liq_x6, lots,
\* leverage_x and long_side are those of getTrade and every stop_buckets row of
\* the id lies in the bucket of the chain's price for its stop type.
C31_FullOpenMatchesChain ==
    [][\A id \in Ids :
          (/\ HasRow(id)
           /\ stateOf(id) = OPEN
           /\ EventStep(id, {"Full"})) =>
              LET row == positions'[id]
                  t   == chain[id]
              IN  /\ row.entry_x6 = t.entryX6
                  /\ row.sl_x6 = t.slX6
                  /\ row.tp_x6 = t.tpX6
                  /\ row.liq_x6 = t.liqX6
                  /\ row.lots = t.lots
                  /\ row.leverage_x = t.leverageX
                  /\ row.long_side = t.longSide
                  /\ \A r \in {s \in stop_buckets' : s.position_id = id} :
                        /\ ChainStop(t, r.stop_type) # 0
                        /\ r.bucket_id = divFloor(ChainStop(t, r.stop_type),
                                                  assets[row.asset_id].tick_size_usd6)]_vars



\* a reconciler or backfill step on the id that wrote its row or its bucket rows
Ingested(id, ops) ==
    /\ EventStep(id, ops)
    /\ stateOf(id) \in {ORDER, OPEN}
    /\ \/ positions'[id] # positions[id]
       \/ order_buckets' # order_buckets
       \/ stop_buckets' # stop_buckets

C33_StopsOnlyWhileOpen ==
    [][\A id \in Ids :
          (/\ HasRow(id)
           /\ positions[id].state # OPEN
           /\ EventStep(id, {"StopsUpdated"})) =>
              {r \in stop_buckets' : r.position_id = id} \subseteq Stops(id)]_vars



\* C34: the id list the backfill controller dispatches is ({1..dbMax} minus
\* the ids present in the DB) united with {max(1, dbMax+1)..chainMax}, in
\* ascending order without duplicates; it never contains id 0, contains no
\* tail when dbMax >= chainMax, and is the whole range 1..chainMax when the DB
\* is empty.
C34_DispatchedIds ==
    (job.kind = "backfill_auto" /\ job.pc = "done") =>
        LET sent      == job.sent
            tailStart == IF job.dbMax + 1 > 1 THEN job.dbMax + 1 ELSE 1
        IN  /\ Range(sent) = ((1..job.dbMax) \ job.seen) \cup (tailStart..job.chainMax)
            /\ \A i \in 1..Len(sent), j \in 1..Len(sent) : i < j => sent[i] < sent[j]
            /\ 0 \notin Range(sent)
            /\ job.dbMax >= job.chainMax => \A i \in 1..Len(sent) : sent[i] <= job.dbMax
            /\ job.seen = {} => sent = rangeList(1, job.chainMax)

\* a run that dispatched a hole and a tail id in two chunks
C34_Witness ==
    /\ job.kind = "backfill_auto" /\ job.pc = "done"
    /\ Len(job.sent) > CHUNK
    /\ \E i \in 1..Len(job.sent) : job.sent[i] < job.dbMax
    /\ \E i \in 1..Len(job.sent) : job.sent[i] > job.dbMax



\* C35: at every moment the number of callers executing inside withRpc is at
\* most rpcConcurrency and the number inside withDb at most dbConcurrency,
\* also after a release function has been called a second time.
C35_PermitsBounded ==
    Running =>
        /\ Cardinality(Inside("rpc")) <= job.conc.rpc
        /\ Cardinality(Inside("db")) <= job.conc.db

\* a release function was called a second time while another worker holds
\* the last permit of the same semaphore
C35_Witness ==
    /\ Running
    /\ \E w \in Workers, v \in Workers :
          LET k == IF job.w[w].step = 1 THEN "rpc" ELSE "db"
          IN  /\ w # v
              /\ job.w[w].rel = 2
              /\ v \in Inside(k)
              /\ job.sem[k].cur = job.sem[k].max



\* C36: runManualState terminates, and when it returns every element of ids
\* was handed to reconcileStateOnly exactly once, in order, and scanned is
\* ids.length.
C36_RunCompletes ==
    <>(/\ Running
       /\ job.pc = "returned"
       /\ job.handed = job.ids
       /\ job.scanned = Len(job.ids))

\* a returned run of the longest id list whose workers shared one permit of
\* each semaphore
C36_Witness ==
    /\ Running
    /\ job.pc = "returned"
    /\ Len(job.ids) = MaxJobLen
    /\ Cardinality(Workers) > 1
    /\ job.sem.rpc.max = 1
    /\ job.sem.db.max = 1



\* C37: a failing chain or store call never aborts a state-only run: the run
\* does not throw, and the summary it returns has scanned = ids.length and
\* counts every id with a failed call in rpcFailed.
C37_FailureNeverAborts ==
    Running =>
        /\ job.pc # "threw"
        /\ \A w \in Workers : job.w[w].pc # "rejected"
        /\ job.pc = "returned" =>
              /\ job.scanned = Len(job.ids)
              /\ job.rpcFailed = job.thrown



\* C38: Executed or StopsUpdated for an id that has no positions row fails
\* with an error and writes nothing to positions, order_buckets or
\* stop_buckets; the consumer that was handed the event stays up, with only
\* its idle time reset.
C38_MissingRowWritesNothing ==
    [][\A id \in Ids :
          (/\ ~HasRow(id)
           /\ EventStep(id, {"Executed", "StopsUpdated"})
           /\ consumer.alive /\ consumer.ws = "open"
           /\ consumer'.ws = "open" /\ consumer'.idle = 0) =>
              /\ UNCHANGED <<positions, order_buckets, stop_buckets>>
              /\ last'.op = "Executed" => handleExecutedEventThrows(assets, DB, ExecutedOf(id))
              /\ last'.op = "StopsUpdated" =>
                    handleStopsUpdatedEventThrows(assets, DB, StopsUpdatedOf(id))
              /\ consumer' = [consumer EXCEPT !.idle = 0]]_vars

\* a consumer was handed StopsUpdated with a non-zero stop for an id that had
\* no row, and the id still has none
C38_Witness ==
    /\ last.op = "StopsUpdated"
    /\ last.pre = NULL
    /\ ~HasRow(last.id)
    /\ chain[last.id].slX6 # 0
    /\ consumer.alive



\* C39: state-only reconciliation of an id whose stored state and chain state
\* are the same terminal state leaves close_reason, exec_x6 and pnl_usd6 of the
\* row as they were, also when it removes stale bucket rows.
C39_TerminalFieldsKept ==
    [][\A id \in Ids :
          (/\ HasRow(id)
           /\ positions[id].state \in Terminal
           /\ positions[id].state = stateOf(id)
           /\ EventStep(id, {"StateOnly"})) =>
              /\ positions'[id].close_reason = positions[id].close_reason
              /\ positions'[id].exec_x6 = positions[id].exec_x6
              /\ positions'[id].pnl_usd6 = positions[id].pnl_usd6]_vars



PoolSafe ==
    Pooling =>
        /\ Cardinality({k \in 1..Len(job.tasks) : job.st[k] = "started"}) <= job.max
        /\ job.running <= job.max
        /\ job.resolved <= 1
        /\ job.resolved = 1 =>
              \A k \in 1..Len(job.tasks) : job.st[k] = "done" /\ job.res[k] = job.tasks[k]

\* C40: runWithConcurrency(tasks, max) never has more than max tasks started
\* and unsettled, and its promise resolves, once, after every task has settled
\* and with res[i] the outcome of tasks[i], for every task list, the empty one
\* included: a call that has nothing left to do has resolved.
C40_PoolResolvesOnce ==
    /\ PoolSafe
    /\ Pooling => job.resolved = 1 \/ ENABLED NextPool

====
